---- MODULE Spec2Model ----
(***************************************************************************)
(* A model of the MuleSoft documentation scraper                           *)
(* (src/mulesoft_assistant/mulesoft_server.py and its helpers).            *)
(*                                                                         *)
(* Python strings are TLA+ strings (Len, SubSeq and \o act on them         *)
(* character by character); a Python dict with string keys is a record, an *)
(* insertion-ordered dict of scraped data is a sequence of [k, v] entries; *)
(* a parsed document (BeautifulSoup) is the sequence of its elements in    *)
(* document order.                                                         *)
(***************************************************************************)
EXTENDS Integers, Sequences, FiniteSets, TLC

(***************************************************************************)
(* Bounds of the model                                                     *)
(***************************************************************************)
\* rows after the header row in a generated cadence table
MaxRows == 2
\* tables on a generated DataWeave page
MaxTables == 2

(***************************************************************************)
(* Strings                                                                 *)
(***************************************************************************)
Digits == "0123456789"
UpperAlpha == "ABCDEFGHIJKLMNOPQRSTUVWXYZ"
LowerAlpha == "abcdefghijklmnopqrstuvwxyz"

\* s[i-1:j] of Python for 1-based i and j: out-of-range positions are clipped
Slice(s, i, j) ==
    LET lo == IF i < 1 THEN 1 ELSE i
        hi == IF j > Len(s) THEN Len(s) ELSE j
    IN IF lo > hi THEN "" ELSE SubSeq(s, lo, hi)

CharAt(s, i) == Slice(s, i, i)

IndexIn(alphabet, c) ==
    IF \E i \in 1..Len(alphabet) : CharAt(alphabet, i) = c
    THEN CHOOSE i \in 1..Len(alphabet) : CharAt(alphabet, i) = c
    ELSE 0

IsDigit(c) == c \in {"0", "1", "2", "3", "4", "5", "6", "7", "8", "9"}

\* the characters Python's str.strip() and the regex class \s remove
IsSpace(c) == c = " "

\* s[i:] with a 1-based i
From(s, i) == Slice(s, i, Len(s))

StartsWith(s, prefix) ==
    Len(prefix) <= Len(s) /\ Slice(s, 1, Len(prefix)) = prefix

\* the 1-based positions at which sub occurs in s
Occurrences(s, sub) ==
    {i \in 1..(Len(s) - Len(sub) + 1) : Slice(s, i, i + Len(sub) - 1) = sub}

\* Python's `sub in s`
Contains(s, sub) == Len(sub) = 0 \/ Occurrences(s, sub) # {}

RECURSIVE LStrip(_)
LStrip(s) ==
    IF Len(s) > 0 /\ IsSpace(CharAt(s, 1)) THEN LStrip(From(s, 2)) ELSE s

RECURSIVE RStrip(_)
RStrip(s) ==
    IF Len(s) > 0 /\ IsSpace(CharAt(s, Len(s)))
    THEN RStrip(Slice(s, 1, Len(s) - 1))
    ELSE s

\* str.strip()
Strip(s) == LStrip(RStrip(s))

\* str.replace(old, new), leftmost non-overlapping occurrences, old non-empty
RECURSIVE Replace(_, _, _)
Replace(s, old, new) ==
    IF Len(s) < Len(old) THEN s
    ELSE IF StartsWith(s, old)
         THEN new \o Replace(From(s, Len(old) + 1), old, new)
         ELSE CharAt(s, 1) \o Replace(From(s, 2), old, new)

RECURSIVE MapChars(_, _, _)
MapChars(s, from, to) ==
    IF Len(s) = 0 THEN ""
    ELSE LET c == CharAt(s, 1)
             k == IndexIn(from, c)
         IN (IF k > 0 THEN CharAt(to, k) ELSE c) \o MapChars(From(s, 2), from, to)

\* str.lower(), str.upper(), str.capitalize()
Lower(s) == MapChars(s, UpperAlpha, LowerAlpha)
Upper(s) == MapChars(s, LowerAlpha, UpperAlpha)
Capitalize(s) ==
    IF Len(s) = 0 THEN "" ELSE Upper(CharAt(s, 1)) \o Lower(From(s, 2))

\* the length of the maximal run of digits of s that starts at position i
RECURSIVE DigitRun(_, _)
DigitRun(s, i) ==
    IF i <= Len(s) /\ IsDigit(CharAt(s, i)) THEN 1 + DigitRun(s, i + 1) ELSE 0

RECURSIVE SpaceRun(_, _)
SpaceRun(s, i) ==
    IF i <= Len(s) /\ IsSpace(CharAt(s, i)) THEN 1 + SpaceRun(s, i + 1) ELSE 0

\* int() of a string of digits
RECURSIVE ToInt(_)
ToInt(ds) ==
    IF Len(ds) = 0 THEN 0
    ELSE 10 * ToInt(Slice(ds, 1, Len(ds) - 1)) + (IndexIn(Digits, CharAt(ds, Len(ds))) - 1)

\* re.findall(r'\d+', s)
RECURSIVE FindDigitRuns(_)
FindDigitRuns(s) ==
    IF Len(s) = 0 THEN <<>>
    ELSE LET n == DigitRun(s, 1)
         IN IF n > 0
            THEN <<Slice(s, 1, n)>> \o FindDigitRuns(From(s, n + 1))
            ELSE FindDigitRuns(From(s, 2))

(***************************************************************************)
(* mulesoft_utils.py                                                       *)
(***************************************************************************)
\* the runs with their repetitions dropped
parse_jdk_versions_deduplicated(jdk_string) ==
    LET numbers == FindDigitRuns(Strip(Replace(jdk_string, "and", ",")))
        first == SelectSeq([i \in 1..Len(numbers) |-> [i |-> i, n |-> numbers[i]]],
                           LAMBDA e : \A j \in 1..(e.i - 1) : numbers[j] # e.n)
    IN [i \in 1..Len(first) |-> ToInt(first[i].n)]
parse_jdk_versions(jdk_string) ==
    IF jdk_string = "" THEN <<>>
    ELSE LET replaced == Strip(Replace(jdk_string, "and", ","))
             numbers == FindDigitRuns(replaced)
         IN [i \in 1..Len(numbers) |-> ToInt(numbers[i])]

\* the length of the match of \d+\.\d+ at position i of s, 0 when there is none
MajorMinorAt(s, i) ==
    LET a == DigitRun(s, i)
        b == DigitRun(s, i + a + 1)
    IN IF a > 0 /\ CharAt(s, i + a) = "." /\ b > 0 THEN a + 1 + b ELSE 0

\* re.search in the place of re.match: the pattern may start anywhere
is_version_string_search(text) == \E i \in 1..Len(text) : MajorMinorAt(text, i) > 0
\* re.match(r'^\d+\.\d+', text)
is_version_string(text) == MajorMinorAt(text, 1) > 0

\* the length of the match of [\d]+\.[\d]+(?:\.[\d]+)? at position i, 0 for none
VersionNumberAt(s, i) ==
    LET mm == MajorMinorAt(s, i)
        c == DigitRun(s, i + mm + 1)
    IN IF mm = 0 THEN 0
       ELSE IF CharAt(s, i + mm) = "." /\ c > 0 THEN mm + 1 + c ELSE mm

\* the length of the match of (?:[Vv]ersion\s*)?[\d]+\.[\d]+(?:\.[\d]+)? at
\* position i, 0 for none: the optional prefix is tried first, then dropped
VersionMatchAt(s, i) ==
    LET word == Slice(s, i, i + 6)
        sp == SpaceRun(s, i + 7)
        withPrefix == IF word \in {"Version", "version"}
                      THEN VersionNumberAt(s, i + 7 + sp) ELSE 0
    IN IF withPrefix > 0 THEN 7 + sp + withPrefix ELSE VersionNumberAt(s, i)

extract_version_number(text) ==
    LET starts == {i \in 1..Len(text) : VersionMatchAt(text, i) > 0}
    IN IF starts = {} THEN ""
       ELSE LET i == CHOOSE j \in starts : \A k \in starts : j <= k
                group == Slice(text, i, i + VersionMatchAt(text, i) - 1)
            IN Strip(Replace(Replace(group, "Version", ""), "version", ""))

(***************************************************************************)
(* mulesoft_constants.py                                                   *)
(***************************************************************************)
MULESOFT_URLS ==
    [lts_edge_release_cadence |->
         "https://docs.mulesoft.com/release-notes/mule-runtime/lts-edge-release-cadence",
     java_support |-> "https://docs.mulesoft.com/general/java-support",
     dataweave |-> "https://docs.mulesoft.com/dataweave/",
     connectors |-> "https://docs.mulesoft.com/connectors/",
     connector_release_notes |->
         "https://docs.mulesoft.com/connectors/introduction/connector-release-notes",
     dataweave_release_notes_template |->
         <<"https://docs.mulesoft.com/release-notes/dataweave/dataweave-", "-release-notes">>]

\* the header table, a dict
DEFAULT_HEADERS ==
    <<[k |-> "User-Agent",
       v |-> "Mozilla/5.0 (Windows NT 10.0; Win64; x64) AppleWebKit/537.36 (KHTML, like Gecko) Chrome/91.0.4472.124 Safari/537.36"]>>

\* MULESOFT_URLS["dataweave_release_notes_template"].format(version=v)
ReleaseNotesUrl(v) ==
    MULESOFT_URLS.dataweave_release_notes_template[1] \o v
        \o MULESOFT_URLS.dataweave_release_notes_template[2]

(***************************************************************************)
(* Sequences, ordered dicts                                                *)
(***************************************************************************)
RECURSIVE FoldLeft(_, _, _)
FoldLeft(Op(_, _), acc, seq) ==
    IF seq = <<>> THEN acc ELSE FoldLeft(Op, Op(acc, Head(seq)), Tail(seq))

\* seq[:n]
Take(seq, n) == SubSeq(seq, 1, IF n < Len(seq) THEN n ELSE Len(seq))

Range(seq) == {seq[i] : i \in 1..Len(seq)}

\* Python's dict, which keeps the order in which the keys were first inserted
DictKeys(d) == {d[i].k : i \in 1..Len(d)}
DictHas(d, key) == key \in DictKeys(d)
DictGet(d, key) == d[CHOOSE i \in 1..Len(d) : d[i].k = key].v
\* d[key] = value
DictSet(d, key, value) ==
    IF DictHas(d, key)
    THEN [i \in 1..Len(d) |-> IF d[i].k = key THEN [k |-> key, v |-> value] ELSE d[i]]
    ELSE Append(d, [k |-> key, v |-> value])

(***************************************************************************)
(* Parsed documents (BeautifulSoup)                                        *)
(***************************************************************************)
Td(text) == [tag |-> "td", text |-> text]
Th(text) == [tag |-> "th", text |-> text]
Table(rows) == [tag |-> "table", rows |-> rows]
Heading(tag, text) == [tag |-> tag, text |-> text]
Para(text) == [tag |-> "p", text |-> text]
Anchor(text, href) == [tag |-> "a", text |-> text, href |-> href]

\* soup.find_all(tags)
find_all(soup, tags) == SelectSeq(soup, LAMBDA e : e.tag \in tags)
\* row.find_all(['td'])
TdCells(row) == SelectSeq(row, LAMBDA c : c.tag = "td")
\* element.get_text(strip=True)
get_text_strip(e) == Strip(e.text)

\* for table in tables: rows = table.find_all('tr'); if len(rows) > 1:
\*     for row in rows[1:]      -- the rows visited, in page order
DataRows(tables) ==
    FoldLeft(LAMBDA acc, t : IF Len(t.rows) > 1 THEN acc \o Tail(t.rows) ELSE acc,
             <<>>, tables)

(***************************************************************************)
(* http_client.py                                                          *)
(* What the network does with a GET is the outcome: a response with a      *)
(* status and a body, or a transport failure (no response at all).         *)
(***************************************************************************)
Response(status, content) == [kind |-> "response", status |-> status, content |-> content]
TransportFailure(text) == [kind |-> "failure", text |-> text]

\* how a piece of code ends: with an exception, or with a value
Raise(type, text) == [raised |-> TRUE, type |-> type, text |-> text]
Returns(value) == [raised |-> FALSE, value |-> value]

\* request_headers = DEFAULT_HEADERS.copy(); if headers: request_headers.update(headers)
\* (defaults is the module's table as it is now, headers the caller's dict, <<>> for None)
RequestHeaders(defaults, headers) ==
    FoldLeft(LAMBDA acc, h : DictSet(acc, h.k, h.v), defaults, headers)

\* the update made on the module's table itself, for want of the copy
DefaultHeadersUpdatedInPlace(defaults, headers) == RequestHeaders(defaults, headers)
\* the module's table after make_http_request: the update went to the copy
DefaultHeadersAfter(defaults, headers) == defaults

\* requests.get(url, ...) followed by response.raise_for_status()
make_http_request(url, outcome) ==
    IF outcome.kind = "failure"
    THEN Raise("RequestException", outcome.text)
    ELSE IF outcome.status >= 400 /\ outcome.status < 600
         THEN Raise("RequestException", "HTTP Error for url: " \o url)
         ELSE [raised |-> FALSE, response |-> outcome]

\* a body that html.parser gives up on: a marked section left open
RejectedMarkup == <<[tag |-> "<![", text |-> "<![n"]>>

\* BeautifulSoup(content, 'html.parser'): the document, or the exception the
\* tree builder raises when the parser rejects the markup
BeautifulSoup(content) ==
    IF \E i \in 1..Len(content) : content[i].tag = "<!["
    THEN Raise("ParserRejectedMarkup", "expected name token")
    ELSE [raised |-> FALSE, soup |-> content]

\* response = make_http_request(...); return BeautifulSoup(response.content, 'html.parser')
get_html_content(url, outcome) ==
    LET r == make_http_request(url, outcome)
    IN IF r.raised THEN r ELSE BeautifulSoup(r.response.content)

(***************************************************************************)
(* _extract_versions_from_tables                                           *)
(***************************************************************************)
\* the Java-support row-scan, shared by the three extractors
JavaRowScan(java_soup, keep_strings) ==
    FoldLeft(LAMBDA acc, row :
                 LET cells == TdCells(row)
                 IN IF Len(cells) >= 2
                    THEN LET version == get_text_strip(cells[1])
                             jdk_support == get_text_strip(cells[2])
                         IN IF is_version_string(version)
                            THEN DictSet(acc, version,
                                         IF keep_strings THEN jdk_support
                                         ELSE parse_jdk_versions(jdk_support))
                            ELSE acc
                    ELSE acc,
             <<>>, DataRows(find_all(java_soup, {"table"})))

VersionType(version_text) ==
    IF Contains(version_text, "Edge") THEN "Edge"
    ELSE IF Contains(version_text, "LTS") THEN "LTS" ELSE "Unknown"

\* if 'Edge' in version_text: ... elif 'LTS' in version_text: ...
IsEdge(version_text) == Contains(version_text, "Edge")

\* an `if` in the place of the `elif`
IsLtsWithoutElif(version_text) == Contains(version_text, "LTS")
IsLts(version_text) == ~Contains(version_text, "Edge") /\ Contains(version_text, "LTS")

CadenceRowScan(lts_edge_soup) ==
    FoldLeft(LAMBDA acc, row :
                 LET cells == TdCells(row)
                 IN IF Len(cells) >= 3
                    THEN LET version_text == get_text_strip(cells[1])
                             jdk_string == get_text_strip(cells[3])
                             jdk_array == parse_jdk_versions(jdk_string)
                             item == [version |-> version_text,
                                      release_date |-> get_text_strip(cells[2]),
                                      jdk_versions |-> jdk_array]
                         IN IF is_version_string(version_text)
                            THEN [version_data |->
                                      Append(acc.version_data,
                                             [version |-> version_text,
                                              release_date |-> get_text_strip(cells[2]),
                                              jdk_versions |-> jdk_array,
                                              jdk_versions_string |-> jdk_string,
                                              type |-> VersionType(version_text)]),
                                  edge_versions |->
                                      IF IsEdge(version_text)
                                      THEN Append(acc.edge_versions, item)
                                      ELSE acc.edge_versions,
                                  lts_versions |->
                                      IF IsLts(version_text)
                                      THEN Append(acc.lts_versions, item)
                                      ELSE acc.lts_versions]
                            ELSE acc
                    ELSE acc,
             [version_data |-> <<>>, edge_versions |-> <<>>, lts_versions |-> <<>>],
             DataRows(find_all(lts_edge_soup, {"table"})))

\* the fallback taken whenever no row was classified as LTS
VersionsInfoFallbackWithoutLts(scan, java_data, java_data_strings) ==
    LET fallback == scan.lts_versions = <<>> /\ scan.version_data # <<>>
    IN [edge_versions |-> IF fallback THEN Take(scan.version_data, 3)
                          ELSE scan.edge_versions,
        lts_versions |-> IF fallback
                         THEN <<scan.version_data[Len(scan.version_data)]>>
                         ELSE scan.lts_versions,
        java_compatibility |-> java_data,
        java_compatibility_strings |-> java_data_strings,
        source_urls |-> <<MULESOFT_URLS.lts_edge_release_cadence,
                          MULESOFT_URLS.java_support>>]
\* the fallback and the return statement, given the two row-scans
VersionsInfo(scan, java_data, java_data_strings) ==
    LET fallback == scan.edge_versions = <<>> /\ scan.lts_versions = <<>>
                    /\ scan.version_data # <<>>
    IN [edge_versions |-> IF fallback THEN Take(scan.version_data, 3)
                          ELSE scan.edge_versions,
        lts_versions |-> IF fallback
                         THEN <<scan.version_data[Len(scan.version_data)]>>
                         ELSE scan.lts_versions,
        java_compatibility |-> java_data,
        java_compatibility_strings |-> java_data_strings,
        source_urls |-> <<MULESOFT_URLS.lts_edge_release_cadence,
                          MULESOFT_URLS.java_support>>]

extract_versions_from_tables(lts_edge_soup, java_soup) ==
    VersionsInfo(CadenceRowScan(lts_edge_soup),
                 JavaRowScan(java_soup, FALSE), JavaRowScan(java_soup, TRUE))

(***************************************************************************)
(* _extract_dataweave_versions                                             *)
(***************************************************************************)
\* str.split('.')
RECURSIVE SplitDots(_)
SplitDots(s) ==
    LET dots == Occurrences(s, ".")
    IN IF dots = {} THEN <<s>>
       ELSE LET i == CHOOSE j \in dots : \A k \in dots : j <= k
            IN <<Slice(s, 1, i - 1)>> \o SplitDots(From(s, i + 1))

\* int(v) succeeds on an optionally space-padded run of digits
IntOk(v) == Strip(v) # "" /\ DigitRun(Strip(v), 1) = Len(Strip(v))

\* key=lambda x: [int(v) for v in x['mule_version'].split('.')]
\*               if '.' in x['mule_version'] else [0]
SortKeyOk(item) ==
    Contains(item.mule_version, ".")
        => \A v \in Range(SplitDots(item.mule_version)) : IntOk(v)

SortKey(item) ==
    IF Contains(item.mule_version, ".")
    THEN LET parts == SplitDots(item.mule_version)
         IN [i \in 1..Len(parts) |-> ToInt(Strip(parts[i]))]
    ELSE <<0>>

\* Python's list comparison a < b
RECURSIVE ListLess(_, _)
ListLess(a, b) ==
    IF b = <<>> THEN FALSE
    ELSE IF a = <<>> THEN TRUE
    ELSE IF Head(a) # Head(b) THEN Head(a) < Head(b)
    ELSE ListLess(Tail(a), Tail(b))

\* the pairs left in page order
Unsorted(data) == data
\* sorted(data, key=SortKey, reverse=True): stable, equal keys keep their order
SortedDescending(data) ==
    FoldLeft(LAMBDA acc, item :
                 LET smaller == {i \in 1..Len(acc) : ListLess(SortKey(acc[i]), SortKey(item))}
                     at == IF smaller = {} THEN Len(acc) + 1
                           ELSE CHOOSE i \in smaller : \A j \in smaller : i <= j
                 IN SubSeq(acc, 1, at - 1) \o <<item>> \o SubSeq(acc, at, Len(acc)),
             <<>>, data)

\* the header-matched tables of the DataWeave page
IsCompatibilityTable(table) ==
    \E cell \in Range(table.rows[1]) :
        \/ Contains(Lower(get_text_strip(cell)), "mule")
        \/ Contains(Lower(get_text_strip(cell)), "runtime")

DataweaveRowScan(dataweave_soup) ==
    FoldLeft(LAMBDA acc, row :
                 LET cells == TdCells(row)
                 IN IF Len(cells) >= 2
                    THEN LET mule_version == get_text_strip(cells[1])
                             dataweave_version == get_text_strip(cells[2])
                         IN IF is_version_string(mule_version)
                               /\ is_version_string(dataweave_version)
                            THEN Append(acc, [mule_version |-> mule_version,
                                              dataweave_version |-> dataweave_version])
                            ELSE acc
                    ELSE acc,
             <<>>,
             DataRows(SelectSeq(find_all(dataweave_soup, {"table"}),
                                LAMBDA t : Len(t.rows) > 1 /\ IsCompatibilityTable(t))))

\* the first key that starts with the Mule version, whether or not the exact key exists
JdkVersionsForPrefixFirst(java_data, mule_ver) ==
    LET hits == {i \in 1..Len(java_data) : StartsWith(java_data[i].k, mule_ver)}
    IN IF hits = {} THEN <<>>
       ELSE java_data[CHOOSE i \in hits : \A j \in hits : i <= j].v
\* the JDK versions of a Mule version: the exact key, else the first key it prefixes
JdkVersionsFor(java_data, mule_ver) ==
    IF DictHas(java_data, mule_ver) THEN DictGet(java_data, mule_ver)
    ELSE LET hits == {i \in 1..Len(java_data) : StartsWith(java_data[i].k, mule_ver)}
         IN IF hits = {} THEN <<>>
            ELSE java_data[CHOOSE i \in hits : \A j \in hits : i <= j].v

\* combined_data and recent_versions, built from the sorted pairs
DataweaveLists(sorted_data, java_data) ==
    LET combined_data ==
            [i \in 1..Len(sorted_data) |->
                [mule_version |-> sorted_data[i].mule_version,
                 dataweave_version |-> sorted_data[i].dataweave_version,
                 jdk_versions |-> JdkVersionsFor(java_data, sorted_data[i].mule_version)]]
    IN [raised |-> FALSE,
        combined_data |-> combined_data,
        recent_versions |-> Take(combined_data, 5),
        java_data |-> java_data]

DataweaveSort(compatibility_data, java_data) ==
    IF \E i \in 1..Len(compatibility_data) : ~SortKeyOk(compatibility_data[i])
    THEN Raise("ValueError", "invalid literal for int() with base 10")
    ELSE DataweaveLists(SortedDescending(compatibility_data), java_data)

\* the part of _extract_dataweave_versions before the release notes are fetched
DataweaveTables(dataweave_soup, java_soup) ==
    DataweaveSort(DataweaveRowScan(dataweave_soup), JavaRowScan(java_soup, FALSE))

\* sibling.get_text(strip=True)
ElementText(e) ==
    IF e.tag = "table"
    THEN FoldLeft(LAMBDA acc, row :
                      FoldLeft(LAMBDA a, cell : a \o Strip(cell.text), acc, row),
                  "", e.rows)
    ELSE Strip(e.text)

HeadingTags == {"h2", "h3", "h4"}

\* the non-empty texts of the siblings after element i, up to the next heading
RECURSIVE SectionContent(_, _)
SectionContent(soup, i) ==
    IF i + 1 > Len(soup) \/ soup[i + 1].tag \in HeadingTags THEN <<>>
    ELSE (IF ElementText(soup[i + 1]) # "" THEN <<ElementText(soup[i + 1])>> ELSE <<>>)
         \o SectionContent(soup, i + 1)

\* the heading scan of one release-notes page
ReleaseNotesHeadings(release_soup) ==
    FoldLeft(LAMBDA acc, i :
                 IF release_soup[i].tag \notin HeadingTags THEN acc
                 ELSE LET heading_text == Lower(get_text_strip(release_soup[i]))
                      IN IF Contains(heading_text, "breaking")
                         THEN [acc EXCEPT !.breaking_changes =
                                   @ \o Take(SectionContent(release_soup, i), 2)]
                         ELSE IF Contains(heading_text, "what's new")
                                 \/ Contains(heading_text, "new features")
                         THEN [acc EXCEPT !.new_features =
                                   @ \o Take(SectionContent(release_soup, i), 3)]
                         ELSE IF Contains(heading_text, "important")
                                 \/ Contains(heading_text, "upgrade")
                         THEN [acc EXCEPT !.important_notes =
                                   @ \o Take(SectionContent(release_soup, i), 2)]
                         ELSE acc,
             [breaking_changes |-> <<>>, new_features |-> <<>>, important_notes |-> <<>>],
             [i \in 1..Len(release_soup) |-> i])

\* the paragraphs that warn, for a page without a breaking-changes heading
ReleaseNotesWarnings(release_soup) ==
    FoldLeft(LAMBDA acc, p :
                 LET text == Lower(get_text_strip(p))
                 IN IF Contains(text, "warning:") \/ Contains(text, "caution:")
                       \/ Contains(text, "deprecated")
                    THEN Append(acc, get_text_strip(p)) ELSE acc,
             <<>>, find_all(release_soup, {"p"}))

\* the three lists as the heading scan left them, without the final slices
ReleaseNotesUncapped(scan, warnings, release_notes_url) ==
    [breaking_changes |-> IF scan.breaking_changes = <<>> THEN warnings
                          ELSE scan.breaking_changes,
     new_features |-> scan.new_features,
     important_notes |-> scan.important_notes,
     release_notes_url |-> release_notes_url]
\* release_notes_info[dw_ver] = {...}: the three lists sliced to 3, 5 and 3
ReleaseNotesCapped(scan, warnings, release_notes_url) ==
    [breaking_changes |-> Take(IF scan.breaking_changes = <<>> THEN warnings
                               ELSE scan.breaking_changes, 3),
     new_features |-> Take(scan.new_features, 5),
     important_notes |-> Take(scan.important_notes, 3),
     release_notes_url |-> release_notes_url]

\* the body of the try block for one release-notes page
ReleaseNotesEntry(release_soup, release_notes_url) ==
    ReleaseNotesCapped(ReleaseNotesHeadings(release_soup),
                       ReleaseNotesWarnings(release_soup), release_notes_url)

\* the return statement of _extract_dataweave_versions
DataweaveResult(recent_versions, combined_data, release_notes_info, java_data) ==
    [recent_dataweave_versions |-> recent_versions,
     all_compatibility_data |-> combined_data,
     release_notes |-> release_notes_info,
     java_compatibility |-> java_data,
     source_urls |-> <<MULESOFT_URLS.dataweave, MULESOFT_URLS.java_support>>]

(***************************************************************************)
(* _extract_connector_versions                                             *)
(***************************************************************************)
SiteRoot == "https://docs.mulesoft.com"

\* the name variations tried against the anchors of the release-notes index
Variations(artifactId_) ==
    <<Lower(artifactId_),
      Lower(artifactId_) \o " connector",
      Lower(artifactId_) \o " connector release notes",
      artifactId_,
      artifactId_ \o " Connector",
      artifactId_ \o " Connector Release Notes",
      Upper(artifactId_) \o " Connector Release Notes",
      Capitalize(artifactId_) \o " Connector Release Notes">>

\* any(variation.lower() in link_text or
\*     variation.lower() == link_text.replace(" release notes", "").strip())
LinkMatches(link, variations) ==
    \E i \in 1..Len(variations) :
        \/ Contains(Lower(get_text_strip(link)), Lower(variations[i]))
        \/ Lower(variations[i])
             = Strip(Replace(Lower(get_text_strip(link)), " release notes", ""))

\* the loop over release_notes_soup.find_all('a', href=True): a matching anchor
\* sets connector_link and connector_name; the loop ends at the first one
\* whose href is not empty
FindConnectorLink(release_notes_soup, variations) ==
    FoldLeft(LAMBDA acc, link :
                 IF acc.connector_link # "" THEN acc
                 ELSE IF LinkMatches(link, variations)
                 THEN [connector_link |-> link.href,
                       connector_name |-> Replace(get_text_strip(link), " Release Notes", "")]
                 ELSE acc,
             [connector_link |-> "", connector_name |-> ""],
             find_all(release_notes_soup, {"a"}))

\* the conversion of the (possibly relative) link to an absolute URL
ResolveConnectorUrl(connector_link) ==
    IF StartsWith(connector_link, "../../")
    THEN IF Contains(connector_link, "/release-notes/connector/")
         THEN SiteRoot \o From(connector_link, 6)
         ELSE MULESOFT_URLS.connectors \o From(connector_link, 7)
    ELSE IF StartsWith(connector_link, "../")
    THEN MULESOFT_URLS.connectors \o "introduction/" \o From(connector_link, 4)
    ELSE IF StartsWith(connector_link, "/")
    THEN SiteRoot \o connector_link
    ELSE IF StartsWith(connector_link, "http")
    THEN connector_link
    ELSE MULESOFT_URLS.connectors \o "introduction/" \o connector_link

\* 'software' in header_texts and 'version' in header_texts
IsSoftwareVersionTable(table) ==
    /\ Len(table.rows) >= 2
    /\ \E cell \in Range(table.rows[1]) : Lower(get_text_strip(cell)) = "software"
    /\ \E cell \in Range(table.rows[1]) : Lower(get_text_strip(cell)) = "version"

\* the Mule version and JDK versions one compatibility table gives
CompatibilityOf(table) ==
    FoldLeft(LAMBDA acc, row :
                 LET cells == TdCells(row)
                 IN IF Len(cells) < 2 THEN acc
                    ELSE IF get_text_strip(cells[1]) = "Mule"
                    THEN [acc EXCEPT !.mule_version = get_text_strip(cells[2])]
                    ELSE IF Contains(get_text_strip(cells[1]), "OpenJDK")
                            \/ Contains(get_text_strip(cells[1]), "JDK")
                    THEN [acc EXCEPT !.jdk_versions =
                              parse_jdk_versions(get_text_strip(cells[2]))]
                    ELSE acc,
             [mule_version |-> "Unknown", jdk_versions |-> <<>>],
             Tail(table.rows))

\* the last compatibility table in the place of the first
DefaultCompatibilityOfLastTable(connector_soup) ==
    LET compatibility_tables ==
            SelectSeq(find_all(connector_soup, {"table"}), IsSoftwareVersionTable)
    IN IF compatibility_tables = <<>>
       THEN [mule_version |-> "Unknown", jdk_versions |-> <<>>]
       ELSE CompatibilityOf(compatibility_tables[Len(compatibility_tables)])
\* compatibility_tables[0] when there is one, else "Unknown" and []
DefaultCompatibility(connector_soup) ==
    LET compatibility_tables ==
            SelectSeq(find_all(connector_soup, {"table"}), IsSoftwareVersionTable)
    IN IF compatibility_tables = <<>>
       THEN [mule_version |-> "Unknown", jdk_versions |-> <<>>]
       ELSE CompatibilityOf(compatibility_tables[1])

\* version_pattern.match(text): some \d+\.\d+ occurs in the text
VersionPatternMatches(text) == \E i \in 1..Len(text) : MajorMinorAt(text, i) > 0

MavenArtifactId(artifactId_) ==
    IF artifactId_ = "http" THEN "mule-http-connector"
    ELSE IF artifactId_ = "email" THEN "mule-email-connector"
    ELSE IF artifactId_ = "sockets" THEN "mule-sockets-connector"
    ELSE "mule-" \o artifactId_ \o "-connector"

ConnectorEntry(connector_version, compatibility, artifactId_, connector_name) ==
    [connector_version |-> connector_version,
     mule_version |-> compatibility.mule_version,
     jdk_versions |-> compatibility.jdk_versions,
     artifactId |-> artifactId_,
     maven_artifact_id |-> MavenArtifactId(artifactId_),
     connector_name |-> connector_name]

\* the records of the version-bearing h2/h3/h4 headings
HeadingVersions(connector_soup, compatibility, artifactId_, connector_name) ==
    FoldLeft(LAMBDA acc, heading :
                 IF VersionPatternMatches(get_text_strip(heading))
                 THEN Append(acc, ConnectorEntry(
                                      extract_version_number(get_text_strip(heading)),
                                      compatibility, artifactId_, connector_name))
                 ELSE acc,
             <<>>, find_all(connector_soup, HeadingTags))

\* element.get_text(): the text of the element, unstripped
RawText(e) ==
    IF e.tag = "table"
    THEN FoldLeft(LAMBDA acc, row : FoldLeft(LAMBDA a, cell : a \o cell.text, acc, row),
                  "", e.rows)
    ELSE e.text

\* connector_soup.get_text()
AllText(soup) == FoldLeft(LAMBDA acc, e : acc \o RawText(e), "", soup)

\* re.findall(r'(?:[Vv]ersion\s*)?[\d]+\.[\d]+(?:\.[\d]+)?', s), from position i
RECURSIVE FindVersions(_, _)
FindVersions(s, i) ==
    LET starts == {k \in i..Len(s) : VersionMatchAt(s, k) > 0}
        first == CHOOSE k \in starts : \A j \in starts : k <= j
    IN IF starts = {} THEN <<>>
       ELSE <<Slice(s, first, first + VersionMatchAt(s, first) - 1)>>
            \o FindVersions(s, first + VersionMatchAt(s, first))

\* a record for every version-like substring, however many there are
SimpleVersionsUncapped(version_matches, artifactId_, connector_name) ==
    [i \in 1..Len(version_matches) |->
        ConnectorEntry(extract_version_number(version_matches[i]),
                       [mule_version |-> "Unknown", jdk_versions |-> <<>>],
                       artifactId_, connector_name)]
\* the records of the first five version-like substrings of the page's text
SimpleVersions(version_matches, artifactId_, connector_name) ==
    [i \in 1..Len(Take(version_matches, 5)) |->
        ConnectorEntry(extract_version_number(version_matches[i]),
                       [mule_version |-> "Unknown", jdk_versions |-> <<>>],
                       artifactId_, connector_name)]

ConnectorSourceUrls(connector_url) == <<connector_url, MULESOFT_URLS.java_support>>

\* the free-text scan asked before the headings
ConnectorPageResultTextFirst(connector_versions, version_matches, artifactId_, connector_url, connector_name, java_data) ==
    IF version_matches # <<>>
    THEN [connector_specific |->
              SimpleVersions(version_matches, artifactId_, connector_name),
          java_compatibility |-> java_data,
          source_urls |-> ConnectorSourceUrls(connector_url)]
    ELSE [message |-> "Connector '" \o artifactId_ \o "' found at " \o connector_url,
          artifactId |-> artifactId_,
          connector_url |-> connector_url,
          connector_name |-> connector_name,
          java_compatibility |-> java_data,
          source_urls |-> ConnectorSourceUrls(connector_url)]
\* the three returns of the try block that follows the connector page's fetch
ConnectorPageResult(connector_versions, version_matches, artifactId_, connector_url, connector_name, java_data) ==
    IF connector_versions # <<>>
    THEN [connector_specific |-> connector_versions,
          java_compatibility |-> java_data,
          source_urls |-> ConnectorSourceUrls(connector_url)]
    ELSE IF version_matches # <<>>
    THEN [connector_specific |->
              SimpleVersions(version_matches, artifactId_, connector_name),
          java_compatibility |-> java_data,
          source_urls |-> ConnectorSourceUrls(connector_url)]
    ELSE [message |-> "Connector '" \o artifactId_ \o "' found at " \o connector_url
                      \o ", but specific version compatibility information could not"
                      \o " be extracted. Please check the connector documentation directly.",
          artifactId |-> artifactId_,
          connector_url |-> connector_url,
          connector_name |-> connector_name,
          java_compatibility |-> java_data,
          source_urls |-> ConnectorSourceUrls(connector_url)]

ExtractConnectorPage(connector_soup, artifactId_, connector_url, connector_name, java_data) ==
    ConnectorPageResult(
        HeadingVersions(connector_soup, DefaultCompatibility(connector_soup),
                        artifactId_, connector_name),
        FindVersions(AllText(connector_soup), 1),
        artifactId_, connector_url, connector_name, java_data)

\* the path below the site's root in the place of the URL that was requested
ConnectorPageExceptWithLink(exc, artifactId_, connector_url, connector_name) ==
    Returns([error |-> "Could not fetch connector page for '" \o artifactId_ \o "': "
                       \o exc.text,
             artifactId |-> artifactId_,
             connector_url |-> From(connector_url, Len(SiteRoot) + 1),
             connector_name |-> connector_name])
\* except Exception as e: of the try block around the connector page
ConnectorPageExcept(exc, artifactId_, connector_url, connector_name) ==
    Returns([error |-> "Could not fetch connector page for '" \o artifactId_ \o "' at "
                       \o connector_url \o ": " \o exc.text,
             artifactId |-> artifactId_,
             connector_url |-> connector_url,
             connector_name |-> connector_name])

\* a bare error in the place of the structured result
ConnectorNotFoundBare(artifactId_) ==
    [error |-> "Connector '" \o artifactId_ \o "' not found in the release notes."]
\* the else branch of `if connector_link:`
ConnectorNotFound(artifactId_) ==
    [error |-> "Connector '" \o artifactId_ \o "' not found in the release notes."
               \o " Please check the artifactId and try again.",
     artifactId |-> artifactId_,
     attempted_variations |-> Variations(artifactId_)]

\* an error that keeps the data scraped so far
ReleaseNotesIndexExceptWithData(exc, artifactId_) ==
    Returns([error |-> "Could not access connector release notes page: " \o exc.text,
             artifactId |-> artifactId_,
             source_urls |-> <<MULESOFT_URLS.connectors, MULESOFT_URLS.java_support>>])
\* except Exception as e: of the try block around the release-notes index
ReleaseNotesIndexExcept(exc, artifactId_) ==
    Returns([error |-> "Could not access connector release notes page: " \o exc.text,
             artifactId |-> artifactId_])

GeneralNote ==
    "General Mule runtime compatibility - check individual connector release notes for specific connector compatibility"

\* the return without an artifactId
GeneralConnectorInfo(java_data) ==
    [connector_compatibility |->
         [i \in 1..Len(java_data) |->
             [mule_version |-> java_data[i].k,
              jdk_versions |-> java_data[i].v,
              note |-> GeneralNote]],
     java_compatibility |-> java_data,
     source_urls |-> <<MULESOFT_URLS.connectors, MULESOFT_URLS.java_support>>]

(***************************************************************************)
(* The tools' exception handlers and get_latest_mulesoft_versions          *)
(***************************************************************************)
\* handlers that report the failed fetch next to an empty payload
ToolExceptWithPayload(exc) ==
    Returns([error |-> "Failed to fetch MuleSoft documentation: " \o exc.text,
             java_compatibility |-> <<>>])
\* except requests.RequestException as e: ... / except Exception as e: ...
\* of _scrape_mulesoft_versions, get_dataweave_versions, get_connector_versions
ToolExcept(exc) ==
    IF exc.type = "RequestException"
    THEN Returns([error |-> "Failed to fetch MuleSoft documentation: " \o exc.text])
    ELSE Returns([error |-> "Failed to parse MuleSoft documentation: " \o exc.text])

\* Python's None
None == [none |-> TRUE]

\* the last element in the place of element 0
LatestIsLast(versions) == IF versions # <<>> THEN versions[Len(versions)] ELSE None
\* full_info[...][0] if full_info[...] else None
Latest(versions) == IF versions # <<>> THEN versions[1] ELSE None

get_latest_mulesoft_versions(full_info) ==
    IF "error" \in DOMAIN full_info THEN full_info
    ELSE LET latest_edge == Latest(full_info.edge_versions)
             latest_lts == Latest(full_info.lts_versions)
             java == full_info.java_compatibility
             with_edge == IF latest_edge # None /\ DictHas(java, latest_edge.version)
                          THEN DictSet(<<>>, latest_edge.version,
                                       DictGet(java, latest_edge.version))
                          ELSE <<>>
             with_lts == IF latest_lts # None /\ DictHas(java, latest_lts.version)
                         THEN DictSet(with_edge, latest_lts.version,
                                      DictGet(java, latest_lts.version))
                         ELSE with_edge
         IN [latest_edge |-> latest_edge,
             latest_lts |-> latest_lts,
             java_compatibility |-> with_lts]

(***************************************************************************)
(* The documentation site: the pages each URL may serve                    *)
(***************************************************************************)
SeqsUpTo(S, n) == UNION {[1..k -> S] : k \in 0..n}

CadenceHeader == <<Th("Version"), Th("Release date"), Th("Supported JDK")>>
\* a table without header cells: its first row is a data row
CadenceFirstRow == <<Td("4.10.0 Edge"), Td("2025-02-01"), Td("17")>>
RowEdge == <<Td("4.9.0 Edge"), Td("2024-05-01"), Td("17, 21")>>
RowLts == <<Td("4.6.0 LTS"), Td("2023-04-01"), Td("8, 11, and 17")>>
RowPlain == <<Td(" 4.4.0 "), Td("2021-10-01"), Td("8 and 11")>>
RowPlainOld == <<Td("4.3.0"), Td("2020-05-01"), Td("8")>>
RowEdgeLts == <<Td("4.5.0 LTS (was Edge)"), Td("2022-10-01"), Td("")>>
RowTwoCells == <<Th("4.8.0 Edge"), Td("2024-02-01"), Td("17")>>
RowNoVersion == <<Td("Edge 4"), Td("n/a"), Td("17")>>

CadenceRowPool ==
    {RowEdge, RowLts, RowPlain, RowPlainOld, RowEdgeLts, RowTwoCells, RowNoVersion}

CadencePages ==
    {<<Table(<<CadenceHeader>> \o rows)>> : rows \in SeqsUpTo(CadenceRowPool, MaxRows)}
    \cup {<<>>,
          <<Table(<<CadenceFirstRow>>)>>,
          <<Table(<<CadenceFirstRow, RowLts>>), Para("4.2.0 Edge"),
            Table(<<CadenceHeader, RowEdge, RowLts>>)>>,
          <<Table(<<CadenceHeader, RowPlain, RowPlainOld>>),
            Table(<<CadenceFirstRow, RowPlainOld, RowPlain, RowPlainOld>>)>>}

JavaHeader == <<Th("Mule version"), Th("Supported JDK")>>
JavaPages ==
    {<<>>,
     <<Table(<<JavaHeader,
               <<Td("4.9.0 Edge"), Td("17, 21")>>,
               <<Td("4.6.0 LTS"), Td("8, 11, and 17")>>,
               <<Td("4.4.0"), Td("8 and 11")>>>>)>>,
     <<Table(<<<<Td("4.10.0 Edge"), Td("17")>>>>),
       Table(<<JavaHeader,
               <<Td("4.4.0"), Td("8")>>,
               <<Td("Mule 4.9.0 Edge"), Td("17")>>,
               <<Td("4.5.0 LTS (was Edge)")>>,
               <<Td("4.3.0"), Td("8")>>,
               <<Th("4.6.0 LTS"), Td("4.4.0"), Td("11")>>>>)>>}

DwHeader == <<Th("Mule Runtime"), Th("DataWeave")>>
DwRecent ==
    Table(<<DwHeader,
            <<Td("4.9.0"), Td("2.9.0")>>,
            <<Td("4.6.0"), Td("2.6.0")>>,
            <<Td(" 4.4.0"), Td("2.4.0 ")>>>>)
DwShared ==
    Table(<<<<Td("mule version"), Td("dataweave version")>>,
            <<Td("4.10.0"), Td("2.10.0")>>,
            <<Td("4.9.0"), Td("2.9.0")>>,
            <<Td("4.9"), Td("2.9.0")>>,
            <<Td("4.9.1")>>,
            <<Td("latest"), Td("2.10.0")>>,
            <<Td("4.9.2"), Td("n/a")>>>>)
DwOld ==
    Table(<<DwHeader,
            <<Td("4.2.0"), Td("2.2.0")>>,
            <<Td("4.3.0"), Td("2.3.0")>>,
            <<Th("4.3"), Td("4.1.0"), Td("2.1.0")>>>>)
DwOther ==
    Table(<<<<Th("Version"), Th("DataWeave")>>, <<Td("5.0.0"), Td("3.0.0")>>>>)
DwSuffixed ==
    Table(<<DwHeader, <<Td("4.4.0-rc1"), Td("2.4.0")>>>>)
DwHeaderOnly == Table(<<<<Td("4.11.0"), Td("2.11.0"), Td("runtime")>>>>)

DataweaveTablePool == {DwRecent, DwShared, DwOld, DwOther, DwSuffixed, DwHeaderOnly}
DataweavePages == SeqsUpTo(DataweaveTablePool, MaxTables)

ReleaseNotesPages ==
    {<<Heading("h1", "DataWeave 2.x Release Notes"),
       Heading("h2", "Breaking Changes"), Para("b1"), Para(" "), Para("b2"), Para("b3"),
       Heading("h3", "Other BREAKING news"), Para("b4"), Para("b5"),
       Heading("h2", "What's New"), Para("n1"), Para("n2"), Para("n3"), Para("n4"),
       Heading("h4", "New Features in 2.x"), Para("n5"), Para("n6"), Para("n7"),
       Heading("h2", "Important"), Para("i1"), Para("i2"), Para("i3"),
       Heading("h2", "Upgrade"), Para("i4"), Para("Warning: w0"),
       Heading("h2", "See Also")>>,
     <<Para("Warning: w1"), Para("x"), Para("CAUTION: w2"), Para("is deprecated"),
       Para("warning: w4"), Heading("h2", "New features"),
       Table(<<<<Td("n1 "), Td(" n2")>>>>)>>}

ConnectorsPages == {<<Heading("h1", "Anypoint Connectors"), Para("Overview")>>}

ReleaseNotesIndexPages ==
    {<<>>,
     <<Anchor("Release Notes", "../"),
       Anchor("Email Connector Release Notes", "connector-email"),
       Anchor(" HTTP Connector Release Notes ", "../../release-notes/connector/connector-http"),
       Anchor("HTTP Policy", "/policies/http")>>,
     <<Anchor("Salesforce Composite Connector Release Notes", ""),
       Anchor("salesforce release notes", "../../salesforce-connector/latest/"),
       Anchor("Amazon S3 (http) Release Notes", "../release-notes/s3"),
       Anchor("Sockets Connector", "https://docs.mulesoft.com/sockets-connector/latest/")>>}

ConnectorPages ==
    {<<>>,
     <<Heading("h1", "HTTP Connector Release Notes 1.10"),
       Table(<<<<Th("Software"), Th("Version")>>,
               <<Td("Mule"), Td("4.3.0 and later")>>,
               <<Td("OpenJDK"), Td("8, 11, and 17")>>>>),
       Heading("h2", "1.10.1"), Para("Fixed in 1.10.1"),
       Heading("h3", "Compatibility"),
       Table(<<<<Th("Software"), Th("Version")>>,
               <<Td("Mule"), Td("4.1.1 and later")>>,
               <<Td("JDK"), Td("8 and 11")>>>>),
       Heading("h2", " Version 1.9.0 "),
       Heading("h4", "See Also")>>,
     <<Heading("h2", "Overview"),
       Table(<<<<Th("Application"), Th("Version")>>, <<Td("Mule"), Td("4.2.0")>>>>),
       Para("Supports version 1.2.3, 1.3 and "), Anchor("Version  2.0.1", "/v2"),
       Para(".4 but not 7 or 3.x; see 10.0, 10.1.0.1")>>,
     <<Heading("h2", "Overview"), Heading("h3", "Release 7.1"),
       Table(<<<<Td("software"), Td("VERSION")>>>>), Para("No releases yet.")>>}

\* what a GET of url may come to: no response, a 404, a body the parser
\* rejects, or one of the pages; for a release-notes page of DataWeave, whose
\* loop passes over every exception alike, the rejected body is left out
Web(url) ==
    {TransportFailure("Read timed out."), Response(404, <<>>)}
    \cup (IF StartsWith(url, MULESOFT_URLS.dataweave_release_notes_template[1])
          THEN {}
          ELSE {Response(200, RejectedMarkup)})
    \cup {Response(200, page) :
            page \in CASE url = MULESOFT_URLS.lts_edge_release_cadence -> CadencePages
                       [] url = MULESOFT_URLS.java_support -> JavaPages
                       [] url = MULESOFT_URLS.dataweave -> DataweavePages
                       [] url = MULESOFT_URLS.connectors -> ConnectorsPages
                       [] url = MULESOFT_URLS.connector_release_notes
                            -> ReleaseNotesIndexPages
                       [] StartsWith(url, MULESOFT_URLS.dataweave_release_notes_template[1])
                            -> ReleaseNotesPages
                       [] OTHER -> ConnectorPages}

(***************************************************************************)
(* The state: one tool invocation at a time                                *)
(***************************************************************************)
VARIABLES
    tool,        \* the tool being run, "none" between calls
    artifactId,  \* get_connector_versions' argument: <<>> for None, <<s>> for s
    pc,          \* where the call stands
    requests,    \* the GETs this call has issued: [url, timeout, headers, ok, exc, soup]
    frame,       \* the call's local variables
    result,      \* the value returned to the caller
    raised,      \* an exception left the tool
    module_globals,      \* the module-level tables MULESOFT_URLS and DEFAULT_HEADERS
    concurrent_headers,  \* the headers of the latest GET that another invocation
                         \* issued since this call began, <<>> when there was none
    call,        \* a direct call of a library function: its name and arguments
    returned     \* what that call came to, NoResult while it has not run

call_vars == <<tool, artifactId, pc, requests, frame, result, raised>>
library_vars == <<call, returned>>
vars == <<tool, artifactId, pc, requests, frame, result, raised,
          module_globals, concurrent_headers, call, returned>>

NoResult == [pending |-> TRUE]
NoCall == [fn |-> "none"]
NoFrame == [n \in {} |-> 0]

ScrapeTools == {"get_mulesoft_runtime_versions", "get_latest_mulesoft_versions"}
Tools == ScrapeTools \cup {"get_dataweave_versions", "get_connector_versions"}

\* the arguments the RPC layer may pass to a tool
Arguments(t) ==
    IF t = "get_connector_versions"
    THEN {<<>>, <<"">>, <<"http">>, <<"Salesforce">>, <<"sockets">>, <<"ftp">>}
    ELSE {<<>>}

Entry(t) ==
    IF t \in ScrapeTools THEN "fetch_lts_edge"
    ELSE IF t = "get_dataweave_versions" THEN "fetch_dataweave"
    ELSE "fetch_connectors"

Init ==
    /\ tool = "none"
    /\ artifactId = <<>>
    /\ pc = "idle"
    /\ requests = <<>>
    /\ frame = NoFrame
    /\ result = NoResult
    /\ raised = FALSE
    /\ module_globals = [MULESOFT_URLS |-> MULESOFT_URLS,
                         DEFAULT_HEADERS |-> DEFAULT_HEADERS]
    /\ concurrent_headers = <<>>
    /\ call = NoCall
    /\ returned = NoResult

\* the RPC layer calls a tool
Invoke(t, arg) ==
    /\ pc = "idle"
    /\ tool' = t
    /\ artifactId' = arg
    /\ pc' = Entry(t)
    /\ concurrent_headers' = <<>>
    /\ UNCHANGED <<requests, frame, result, raised, module_globals, library_vars>>

\* the tool's value (or its exception) reaches the caller
Finish(outcome) ==
    /\ pc' = "done"
    /\ raised' = outcome.raised
    /\ result' = IF outcome.raised THEN NoResult ELSE outcome.value

\* the GET the call issues now, logged with what became of it: ok and the
\* page parsed from the response, or not ok and no page
Get(url, timeout, r) ==
    /\ requests' = Append(requests,
                          [url |-> url, timeout |-> timeout,
                           headers |-> RequestHeaders(module_globals.DEFAULT_HEADERS, <<>>),
                           ok |-> ~r.raised,
                           exc |-> IF r.raised THEN r.type ELSE "",
                           soup |-> IF r.raised THEN <<>> ELSE r.soup])
    /\ module_globals' =
           [module_globals EXCEPT
                !.DEFAULT_HEADERS = DefaultHeadersAfter(@, <<>>)]
    /\ UNCHANGED <<concurrent_headers, library_vars>>

\* the caller's view of _scrape_mulesoft_versions' return value
ScrapeReturn(t, scraped) ==
    IF scraped.raised THEN scraped
    ELSE IF t = "get_latest_mulesoft_versions"
         THEN Returns(get_latest_mulesoft_versions(scraped.value))
         ELSE scraped

\* _scrape_mulesoft_versions returns (scraped) and its caller goes on with it
ScrapeDone(scraped) ==
    /\ Finish(ScrapeReturn(tool, scraped))
    /\ frame' = [full_info |-> scraped.value]

\* the scraper going on to the Java-support page whatever the first fetch gave
LtsEdgeFetchedGoesOn(r) ==
    /\ Get(MULESOFT_URLS.lts_edge_release_cadence, 30, r)
    /\ pc' = "fetch_java"
    /\ frame' = [lts_edge_soup |-> IF r.raised THEN <<>> ELSE r.soup]
    /\ UNCHANGED <<result, raised>>
LtsEdgeFetched(r) ==
    /\ Get(MULESOFT_URLS.lts_edge_release_cadence, 30, r)
    /\ IF r.raised
       THEN ScrapeDone(ToolExcept(r))
       ELSE /\ pc' = "fetch_java"
            /\ frame' = [lts_edge_soup |-> r.soup]
            /\ UNCHANGED <<result, raised>>

FetchLtsEdge ==
    /\ pc = "fetch_lts_edge"
    /\ \E outcome \in Web(MULESOFT_URLS.lts_edge_release_cadence) :
         LtsEdgeFetched(get_html_content(MULESOFT_URLS.lts_edge_release_cadence, outcome))
    /\ UNCHANGED <<tool, artifactId>>

JavaSupportFetched(r) ==
    /\ Get(MULESOFT_URLS.java_support, 30, r)
    /\ IF r.raised
       THEN ScrapeDone(ToolExcept(r))
       ELSE /\ pc' = "extracting"
            /\ frame' = [lts_edge_soup |-> frame.lts_edge_soup, java_soup |-> r.soup]
            /\ UNCHANGED <<result, raised>>

FetchJavaSupport ==
    /\ pc = "fetch_java"
    /\ \E outcome \in Web(MULESOFT_URLS.java_support) :
         JavaSupportFetched(get_html_content(MULESOFT_URLS.java_support, outcome))
    /\ UNCHANGED <<tool, artifactId>>

ExtractVersions ==
    /\ pc = "extracting"
    /\ ScrapeDone(Returns(extract_versions_from_tables(frame.lts_edge_soup,
                                                       frame.java_soup)))
    /\ UNCHANGED <<tool, artifactId, requests, module_globals, concurrent_headers,
                   library_vars>>

\* the tool returns and none of its locals is looked at again
ToolDone(outcome) ==
    /\ Finish(outcome)
    /\ frame' = NoFrame

DataweaveFetched(r) ==
    /\ Get(MULESOFT_URLS.dataweave, 30, r)
    /\ IF r.raised
       THEN ToolDone(ToolExcept(r))
       ELSE /\ pc' = "fetch_java_dataweave"
            /\ frame' = [dataweave_soup |-> r.soup]
            /\ UNCHANGED <<result, raised>>

FetchDataweave ==
    /\ pc = "fetch_dataweave"
    /\ \E outcome \in Web(MULESOFT_URLS.dataweave) :
         DataweaveFetched(get_html_content(MULESOFT_URLS.dataweave, outcome))
    /\ UNCHANGED <<tool, artifactId>>

\* the table extraction, sort and JDK lookup (t) that follow the Java-support
\* fetch of get_dataweave_versions without another fetch
DataweaveExtracted(t) ==
    IF t.raised
    THEN ToolDone(ToolExcept(t))
    ELSE IF t.recent_versions = <<>>
    THEN ToolDone(Returns(DataweaveResult(<<>>, <<>>, <<>>, t.java_data)))
    ELSE /\ pc' = "fetch_release_notes"
         /\ frame' = [recent_versions |-> t.recent_versions,
                      combined_data |-> t.combined_data,
                      java_data |-> t.java_data,
                      release_notes_info |-> <<>>,
                      next |-> 1]
         /\ UNCHANGED <<result, raised>>

JavaSupportDataweaveFetched(r) ==
    /\ Get(MULESOFT_URLS.java_support, 30, r)
    /\ IF r.raised
       THEN ToolDone(ToolExcept(r))
       ELSE DataweaveExtracted(DataweaveTables(frame.dataweave_soup, r.soup))

FetchJavaSupportDataweave ==
    /\ pc = "fetch_java_dataweave"
    /\ \E outcome \in Web(MULESOFT_URLS.java_support) :
         JavaSupportDataweaveFetched(get_html_content(MULESOFT_URLS.java_support, outcome))
    /\ UNCHANGED <<tool, artifactId>>

\* the end of one turn of the release-notes loop, and the return after the last
ReleaseNotesTurn(release_notes_info) ==
    IF frame.next < Len(Take(frame.recent_versions, 3))
    THEN /\ pc' = "fetch_release_notes"
         /\ frame' = [frame EXCEPT !.release_notes_info = release_notes_info,
                                   !.next = @ + 1]
         /\ UNCHANGED <<result, raised>>
    ELSE /\ Finish(Returns(DataweaveResult(frame.recent_versions, frame.combined_data,
                                           release_notes_info, frame.java_data)))
         /\ frame' = [frame EXCEPT !.release_notes_info = release_notes_info]

ReleaseNotesFetched(dw_ver, release_notes_url, r) ==
    /\ Get(release_notes_url, 10, r)
    /\ ReleaseNotesTurn(IF r.raised THEN frame.release_notes_info
                        ELSE DictSet(frame.release_notes_info, dw_ver,
                                     ReleaseNotesEntry(r.soup, release_notes_url)))

\* one turn of `for item in recent_versions[:3]`
FetchReleaseNotes ==
    /\ pc = "fetch_release_notes"
    /\ \E outcome \in Web(ReleaseNotesUrl(frame.recent_versions[frame.next].dataweave_version)) :
         ReleaseNotesFetched(
             frame.recent_versions[frame.next].dataweave_version,
             ReleaseNotesUrl(frame.recent_versions[frame.next].dataweave_version),
             get_html_content(
                 ReleaseNotesUrl(frame.recent_versions[frame.next].dataweave_version),
                 outcome))
    /\ UNCHANGED <<tool, artifactId>>

ConnectorsFetched(r) ==
    /\ Get(MULESOFT_URLS.connectors, 30, r)
    /\ IF r.raised
       THEN ToolDone(ToolExcept(r))
       ELSE /\ pc' = "fetch_java_connector"
            /\ frame' = [connectors_soup |-> r.soup]
            /\ UNCHANGED <<result, raised>>

FetchConnectors ==
    /\ pc = "fetch_connectors"
    /\ \E outcome \in Web(MULESOFT_URLS.connectors) :
         ConnectorsFetched(get_html_content(MULESOFT_URLS.connectors, outcome))
    /\ UNCHANGED <<tool, artifactId>>

\* if artifactId:
Truthy(arg) == arg # <<>> /\ arg[1] # ""

JavaSupportConnectorFetched(r) ==
    /\ Get(MULESOFT_URLS.java_support, 30, r)
    /\ IF r.raised
       THEN ToolDone(ToolExcept(r))
       ELSE IF Truthy(artifactId)
       THEN /\ pc' = "fetch_release_notes_index"
            /\ frame' = [java_data |-> JavaRowScan(r.soup, FALSE)]
            /\ UNCHANGED <<result, raised>>
       ELSE ToolDone(Returns(GeneralConnectorInfo(JavaRowScan(r.soup, FALSE))))

FetchJavaSupportConnector ==
    /\ pc = "fetch_java_connector"
    /\ \E outcome \in Web(MULESOFT_URLS.java_support) :
         JavaSupportConnectorFetched(get_html_content(MULESOFT_URLS.java_support, outcome))
    /\ UNCHANGED <<tool, artifactId>>

\* the anchor scan (found) that follows the fetch of the release-notes index
ConnectorLinkScanned(found) ==
    IF found.connector_link # ""
    THEN /\ pc' = "fetch_connector_page"
         /\ frame' = [java_data |-> frame.java_data,
                      connector_link |-> found.connector_link,
                      connector_url |-> ResolveConnectorUrl(found.connector_link),
                      connector_name |-> found.connector_name]
         /\ UNCHANGED <<result, raised>>
    ELSE ToolDone(Returns(ConnectorNotFound(artifactId[1])))

ReleaseNotesIndexFetched(r) ==
    /\ Get(MULESOFT_URLS.connector_release_notes, 30, r)
    /\ IF r.raised
       THEN ToolDone(ReleaseNotesIndexExcept(r, artifactId[1]))
       ELSE ConnectorLinkScanned(FindConnectorLink(r.soup, Variations(artifactId[1])))

FetchReleaseNotesIndex ==
    /\ pc = "fetch_release_notes_index"
    /\ \E outcome \in Web(MULESOFT_URLS.connector_release_notes) :
         ReleaseNotesIndexFetched(
             get_html_content(MULESOFT_URLS.connector_release_notes, outcome))
    /\ UNCHANGED <<tool, artifactId>>

ConnectorPageFetched(r) ==
    /\ Get(frame.connector_url, 30, r)
    /\ Finish(IF r.raised
              THEN ConnectorPageExcept(r, artifactId[1], frame.connector_url,
                                       frame.connector_name)
              ELSE Returns(ExtractConnectorPage(r.soup, artifactId[1], frame.connector_url,
                                                frame.connector_name, frame.java_data)))
    /\ UNCHANGED frame

FetchConnectorPage ==
    /\ pc = "fetch_connector_page"
    /\ \E outcome \in Web(frame.connector_url) :
         ConnectorPageFetched(get_html_content(frame.connector_url, outcome))
    /\ UNCHANGED <<tool, artifactId>>

Return ==
    /\ pc = "done"
    /\ tool' = "none"
    /\ artifactId' = <<>>
    /\ pc' = "idle"
    /\ requests' = <<>>
    /\ frame' = NoFrame
    /\ result' = NoResult
    /\ raised' = FALSE
    /\ concurrent_headers' = <<>>
    /\ UNCHANGED <<module_globals, library_vars>>

\* the headers a caller of the fetcher may pass: None, or overrides
CallerHeaders ==
    {<<>>, <<[k |-> "User-Agent", v |-> "curl/8.0"], [k |-> "Accept", v |-> "text/html"]>>}

\* another invocation calls make_http_request while this call is under way
ConcurrentFetch(headers) ==
    /\ pc \notin {"idle", "done"}
    /\ concurrent_headers' = RequestHeaders(module_globals.DEFAULT_HEADERS, headers)
    /\ module_globals' =
           [module_globals EXCEPT
                !.DEFAULT_HEADERS = DefaultHeadersAfter(@, headers)]
    /\ UNCHANGED <<call_vars, library_vars>>

Next ==
    \/ \E t \in Tools : \E arg \in Arguments(t) : Invoke(t, arg)
    \/ FetchLtsEdge
    \/ FetchJavaSupport
    \/ ExtractVersions
    \/ FetchDataweave
    \/ FetchJavaSupportDataweave
    \/ FetchReleaseNotes
    \/ FetchConnectors
    \/ FetchJavaSupportConnector
    \/ FetchReleaseNotesIndex
    \/ FetchConnectorPage
    \/ Return

Spec == Init /\ [][Next]_vars

\* _scrape_mulesoft_versions, once begun, runs to its end: each GET has a
\* timeout and the extraction loops over finite pages
\* (weak fairness of the three steps, each being enabled exactly where pc
\* stands at it)
SpecFair ==
    /\ Spec
    /\ []<>(pc # "fetch_lts_edge") \/ []<><<FetchLtsEdge>>_vars
    /\ []<>(pc # "fetch_java") \/ []<><<FetchJavaSupport>>_vars
    /\ []<>(pc # "extracting") \/ []<><<ExtractVersions>>_vars

\* a call whose steps interleave with the fetches of other invocations
NextConcurrent ==
    \/ Next
    \/ \E headers \in CallerHeaders : ConcurrentFetch(headers)

SpecConcurrent == Init /\ [][NextConcurrent]_vars

(***************************************************************************)
(* The library functions, called directly                                  *)
(***************************************************************************)
\* the statuses a final response may carry (requests follows a redirect that
\* has a Location; 300 and 304 have none to follow)
Statuses == {200, 204, 300, 304, 403, 404, 500, 503}

PlainPage == <<Heading("h1", "Anypoint"), Para("See the release notes.")>>

\* what requests.get may come to when the fetcher is called on its own
FetchOutcomes ==
    {TransportFailure("Read timed out."), TransportFailure("Connection refused")}
    \cup {Response(status, page) : status \in Statuses, page \in {<<>>, PlainPage}}

FetchedUrls ==
    {MULESOFT_URLS.lts_edge_release_cadence, MULESOFT_URLS.java_support,
     MULESOFT_URLS.dataweave, MULESOFT_URLS.connectors}

FetchCalls ==
    {[fn |-> "get_html_content", url |-> url, outcome |-> outcome] :
        url \in FetchedUrls, outcome \in FetchOutcomes}

NoToolRuns ==
    /\ tool = "none"
    /\ artifactId = <<>>
    /\ pc = "idle"
    /\ requests = <<>>
    /\ frame = NoFrame
    /\ result = NoResult
    /\ raised = FALSE
    /\ module_globals = [MULESOFT_URLS |-> MULESOFT_URLS,
                         DEFAULT_HEADERS |-> DEFAULT_HEADERS]
    /\ concurrent_headers = <<>>

(***************************************************************************)
(* quickstart/rssfeed_stdio.py: search_youtube                             *)
(***************************************************************************)
MaxEntries == 2

\* str.split(): the maximal runs of non-blank characters
RECURSIVE SplitWords(_)
SplitWords(text) ==
    LET rest == LStrip(text)
        n == CHOOSE k \in 0..Len(rest) :
                 /\ \A i \in 1..k : ~IsSpace(CharAt(rest, i))
                 /\ (k = Len(rest) \/ IsSpace(CharAt(rest, k + 1)))
    IN IF Len(rest) = 0 THEN <<>>
       ELSE <<Slice(rest, 1, n)>> \o SplitWords(From(rest, n + 1))

\* match = query_lower in title_lower
\* if not match: match = all(word in title_lower for word in query_words)
TitleMatches(title, query) ==
    LET query_lower == Lower(query)
        query_words == SplitWords(query_lower)
        title_lower == Lower(title)
    IN \/ Contains(title_lower, query_lower)
       \/ \A w \in 1..Len(query_words) : Contains(title_lower, query_words[w])

\* the loop over feed.entries from entry i on, results being the list so far;
\* the length test comes after the append, at the end of each iteration
RECURSIVE SearchEntries(_, _, _, _, _)
SearchEntries(entries, i, results, query, max_results) ==
    IF i > Len(entries) THEN results
    ELSE LET entry == entries[i]
             found == IF TitleMatches(entry.title, query)
                      THEN Append(results, [title |-> entry.title, link |-> entry.link])
                      ELSE results
         IN IF Len(found) >= max_results
            THEN found
            ELSE SearchEntries(entries, i + 1, found, query, max_results)

search_youtube(entries, query, max_results) ==
    SearchEntries(entries, 1, <<>>, query, max_results)

\* the entries of the channel's feed, as feedparser gives them
FeedEntry(title) == [title |-> title, link |-> "https://www.youtube.com/watch?v=" \o title]
FeedTitles == {"GPT-4 Demo", "Sora demo: GPT", "DevDay keynote"}
Feeds == {[i \in 1..Len(titles) |-> FeedEntry(titles[i])] :
             titles \in SeqsUpTo(FeedTitles, MaxEntries)}
Queries == {"gpt", "GPT demo", "demo  gpt", "", " ", "keynote", "o3"}
MaxResults == {-1, 0, 1, 2, 10}

SearchCalls ==
    {[fn |-> "search_youtube", entries |-> entries, query |-> query,
      max_results |-> max_results] :
        entries \in Feeds, query \in Queries, max_results \in MaxResults}

(***************************************************************************)
(* quickstart/calculator_stdio.py and calculator_api_http.py               *)
(***************************************************************************)
\* a float that is a ratio of two integers, in lowest terms, den > 0
Abs(n) == IF n < 0 THEN -n ELSE n
RECURSIVE Gcd(_, _)
Gcd(a, b) == IF b = 0 THEN a ELSE Gcd(b, a % b)
Ratio(n, d) ==
    LET g == Gcd(Abs(n), Abs(d))
        sign == IF d < 0 THEN -1 ELSE 1
    IN [num |-> sign * (n \div g), den |-> sign * (d \div g)]

\* dividend / divisor, dividend % divisor (the sign of the divisor) and
\* dividend * divisor of Python, on whole-number floats
TrueDiv(dividend, divisor) == Ratio(dividend, divisor)
Modulo(dividend, divisor) ==
    Ratio(IF divisor > 0 THEN dividend % divisor ELSE -((-dividend) % (-divisor)), 1)
Product(dividend, divisor) == Ratio(dividend * divisor, 1)

\* calculator_stdio.py: the divide and reminder tools
divide(dividend, divisor) ==
    IF divisor = 0 THEN Raise("ValueError", "Cannot divide by zero(divisor).")
    ELSE Returns(TrueDiv(dividend, divisor))
reminder(dividend, divisor) ==
    IF divisor = 0 THEN Raise("ValueError", "Cannot divide by zero(divisor).")
    ELSE Returns(Modulo(dividend, divisor))

\* calculator_api_http.py: GET /divide, GET /reminder, POST /divide, POST /reminder
get_divide(dividend, divisor) ==
    IF divisor = 0 THEN Returns([error |-> "Division by zero is not allowed."])
    ELSE Returns([result |-> Product(dividend, divisor)])
get_reminder(dividend, divisor) ==
    IF divisor = 0 THEN Returns([error |-> "Division by zero is not allowed."])
    ELSE Returns([result |-> Product(dividend, divisor)])
post_divide(numbers) ==
    IF numbers.divisor = 0 THEN Returns([error |-> "Division by zero is not allowed."])
    ELSE Returns([result |-> Product(numbers.dividend, numbers.divisor)])
post_reminder(numbers) ==
    IF numbers.divisor = 0 THEN Returns([error |-> "Division by zero is not allowed."])
    ELSE Returns([result |-> Product(numbers.dividend, numbers.divisor)])

Operands == -2..3
StdioTools == {"divide", "reminder"}
HttpRoutes == {"GET /divide", "GET /reminder", "POST /divide", "POST /reminder"}

CalculatorCalls ==
    {[fn |-> fn, dividend |-> dividend, divisor |-> divisor] :
        fn \in StdioTools \cup HttpRoutes, dividend \in Operands, divisor \in Operands}

\* the texts of a "Supported JDK" cell, and None (<<>>) for a missing one
JdkStrings ==
    {"", "8, 11, and 17", "8 and 11", "17, 8, 8", "8and11", "Java 17 only",
     "none", "21", "007", "1.8 and 11", " 11 ", "and", "11and"}

JdkCalls ==
    {[fn |-> "parse_jdk_versions", jdk_string |-> arg] :
        arg \in {<<>>} \cup {<<text>> : text \in JdkStrings}}

(***************************************************************************)
(* _extract_dataweave_versions, called on two parsed pages                 *)
(***************************************************************************)
MaxJavaRows == 3

\* rows of the Java-support table whose keys are exact, suffixed, or merely
\* begin with the same characters as a Mule version of the DataWeave table
LookupJavaRows ==
    {<<Td("4.4.0 Edge"), Td("17")>>, <<Td("4.4.0"), Td("8 and 11")>>,
     <<Td("4.4.0 LTS"), Td("11")>>, <<Td("4.10 Edge"), Td("21")>>,
     <<Td("4.1 LTS"), Td("8")>>}

LookupJavaPages ==
    {<<Table(<<JavaHeader>> \o rows)>> : rows \in SeqsUpTo(LookupJavaRows, MaxJavaRows)}

LookupDataweavePages ==
    {<<Table(<<DwHeader,
               <<Td("4.4.0"), Td("2.4.0")>>,
               <<Td("4.1"), Td("2.1.0")>>,
               <<Td("4.10"), Td("2.10.0")>>,
               <<Td("4.7.0"), Td("2.7.0")>>>>)>>}

DataweaveTablesCalls ==
    {[fn |-> "_extract_dataweave_versions", dataweave_soup |-> dataweave_soup,
      java_soup |-> java_soup] :
        dataweave_soup \in LookupDataweavePages, java_soup \in LookupJavaPages}

\* the hrefs an anchor of the release-notes index may carry
ConnectorLinks ==
    {"../../release-notes/connector/connector-http",
     "../../salesforce-connector/latest/",
     "../release-notes/s3",
     "../",
     "/policies/http",
     "https://docs.mulesoft.com/sockets-connector/latest/",
     "connector-email",
     "../../../release-notes/connector/connector-ftp",
     "../../../ftp-connector/latest/",
     "../../ftp-connector/../sftp-connector/latest/"}

ResolveCalls ==
    {[fn |-> "resolve connector_link", connector_link |-> connector_link] :
        connector_link \in ConnectorLinks}

InitLibrary ==
    /\ NoToolRuns
    /\ \/ call \in FetchCalls
       \/ call \in JdkCalls
       \/ call \in SearchCalls
       \/ call \in CalculatorCalls
       \/ call \in DataweaveTablesCalls
       \/ call \in ResolveCalls
    /\ returned = NoResult

\* parse_jdk_versions(jdk_string) runs to its end; `not jdk_string` holds for
\* None as it does for ""
ParseJdkVersions ==
    /\ call.fn = "parse_jdk_versions"
    /\ returned = NoResult
    /\ returned' = Returns(IF call.jdk_string = <<>> THEN <<>>
                           ELSE parse_jdk_versions(call.jdk_string[1]))
    /\ UNCHANGED <<call_vars, module_globals, concurrent_headers, call>>

\* get_html_content(url) runs to its end
GetHtmlContent ==
    /\ call.fn = "get_html_content"
    /\ returned = NoResult
    /\ returned' = get_html_content(call.url, call.outcome)
    /\ UNCHANGED <<call_vars, module_globals, concurrent_headers, call>>

\* search_youtube(query, max_results) runs to its end on the feed it parsed
SearchYoutube ==
    /\ call.fn = "search_youtube"
    /\ returned = NoResult
    /\ returned' = Returns(search_youtube(call.entries, call.query, call.max_results))
    /\ UNCHANGED <<call_vars, module_globals, concurrent_headers, call>>

\* a tool of the stdio calculator runs to its end
StdioCalculator ==
    /\ call.fn \in StdioTools
    /\ returned = NoResult
    /\ returned' = IF call.fn = "divide" THEN divide(call.dividend, call.divisor)
                   ELSE reminder(call.dividend, call.divisor)
    /\ UNCHANGED <<call_vars, module_globals, concurrent_headers, call>>

\* a route of the HTTP calculator answers
HttpCalculator ==
    /\ call.fn \in HttpRoutes
    /\ returned = NoResult
    /\ returned' =
         CASE call.fn = "GET /divide" -> get_divide(call.dividend, call.divisor)
           [] call.fn = "GET /reminder" -> get_reminder(call.dividend, call.divisor)
           [] call.fn = "POST /divide" ->
                post_divide([name |-> "divide", dividend |-> call.dividend,
                             divisor |-> call.divisor])
           [] call.fn = "POST /reminder" ->
                post_reminder([name |-> "reminder", dividend |-> call.dividend,
                               divisor |-> call.divisor])
    /\ UNCHANGED <<call_vars, module_globals, concurrent_headers, call>>

\* _extract_dataweave_versions runs up to its lists combined_data and
\* recent_versions
ExtractDataweaveTables ==
    /\ call.fn = "_extract_dataweave_versions"
    /\ returned = NoResult
    /\ returned' = DataweaveTables(call.dataweave_soup, call.java_soup)
    /\ UNCHANGED <<call_vars, module_globals, concurrent_headers, call>>

\* the conversion of a matched link to connector_url runs to its end
ResolveConnectorLink ==
    /\ call.fn = "resolve connector_link"
    /\ returned = NoResult
    /\ returned' = Returns(ResolveConnectorUrl(call.connector_link))
    /\ UNCHANGED <<call_vars, module_globals, concurrent_headers, call>>

NextLibrary ==
    \/ GetHtmlContent
    \/ ParseJdkVersions
    \/ SearchYoutube
    \/ StdioCalculator
    \/ HttpCalculator
    \/ ExtractDataweaveTables
    \/ ResolveConnectorLink

SpecLibrary == InitLibrary /\ [][NextLibrary]_vars

(***************************************************************************)
(* Properties of a call, stated on what the caller sees (result, raised)   *)
(* and on what the call asked of the site (requests)                       *)
(***************************************************************************)
\* the two pages a tool fetches before anything else
PrimaryUrls(t) ==
    IF t \in ScrapeTools
    THEN {MULESOFT_URLS.lts_edge_release_cadence, MULESOFT_URLS.java_support}
    ELSE IF t = "get_dataweave_versions"
    THEN {MULESOFT_URLS.dataweave, MULESOFT_URLS.java_support}
    ELSE {MULESOFT_URLS.connectors, MULESOFT_URLS.java_support}

PrimaryFetchFailed ==
    \E i \in 1..Len(requests) :
        i <= 2 /\ requests[i].url \in PrimaryUrls(tool) /\ ~requests[i].ok

\* C1: for each of the four tools, once the fetch of either of its two
\* primary pages has failed, the call is over, it returned a mapping whose
\* only field is "error" with a non-empty string, and nothing was raised.
C1_PrimaryFetchFailureIsErrorOnly ==
    PrimaryFetchFailed
        => /\ pc = "done"
           /\ ~raised
           /\ DOMAIN result = {"error"}
           /\ result.error # ""

\* the second primary page of get_dataweave_versions failed after the first came
C1_Witness ==
    /\ pc = "done"
    /\ tool = "get_dataweave_versions"
    /\ Len(requests) = 2
    /\ requests[1].ok
    /\ ~requests[2].ok

\* the fields that only a result carrying data has
SuccessFields ==
    {"source_urls", "java_compatibility", "java_compatibility_strings",
     "edge_versions", "lts_versions", "latest_edge", "latest_lts",
     "recent_dataweave_versions", "all_compatibility_data", "release_notes",
     "connector_specific", "connector_compatibility"}

\* C2: a result returned by any tool on any path is an error payload or a
\* success payload and never both: "error" never comes with source_urls,
\* java_compatibility or a version or compatibility list.
C2_ErrorAndSuccessExclude ==
    (pc = "done" /\ ~raised)
        => ("error" \in DOMAIN result) # (DOMAIN result \cap SuccessFields # {})

\* an error result that carries more than the message
C2_Witness ==
    /\ pc = "done"
    /\ {"error", "connector_url", "connector_name"} \subseteq DOMAIN result

\* C3: every call that returns data carries a source_urls list holding every
\* URL the call fetched (release-notes pages and both connector indexes
\* included).
C3_SourceUrlsListEveryFetch ==
    (pc = "done" /\ ~raised /\ "error" \notin DOMAIN result)
        => /\ "source_urls" \in DOMAIN result
           /\ \A i \in 1..Len(requests) : requests[i].url \in Range(result.source_urls)

\* C4: whichever release-notes fetches of get_dataweave_versions fail, the
\* call returns the full recent and all-compatibility lists, and release_notes
\* has an entry for a dataweave_version exactly when the fetch of its page
\* succeeded.
C4_ReleaseNotesFollowTheirFetches ==
    (pc = "done" /\ tool = "get_dataweave_versions" /\ Len(requests) > 2)
        => /\ ~raised
           /\ "error" \notin DOMAIN result
           /\ result.recent_dataweave_versions = frame.recent_versions
           /\ result.all_compatibility_data = frame.combined_data
           /\ \A i \in 3..Len(requests) :
                requests[i].ok
                    <=> DictHas(result.release_notes,
                                frame.recent_versions[i - 2].dataweave_version)

\* C5: within one call no URL is requested more than once.
C5_NoUrlRequestedTwice ==
    \A i, j \in 1..Len(requests) : i # j => requests[i].url # requests[j].url

\* the last GET of get_connector_versions(artifactId) failed after both
\* primary pages came: the release-notes index or the connector's page
ConnectorFetchFailed ==
    /\ pc = "done"
    /\ tool = "get_connector_versions"
    /\ Len(requests) > 2
    /\ ~requests[Len(requests)].ok

\* the URL a connector error result tells its reader: the connector page's as
\* connector_url, the index's by the wording kept for that page alone
IdentifiedUrl(r) ==
    IF "connector_url" \in DOMAIN r THEN r.connector_url
    ELSE IF StartsWith(r.error, "Could not access connector release notes page: ")
    THEN MULESOFT_URLS.connector_release_notes
    ELSE ""

NoAnchorMatches ==
    /\ pc = "done"
    /\ tool = "get_connector_versions"
    /\ Len(requests) > 2
    /\ requests[3].ok
    /\ \A a \in Range(find_all(requests[3].soup, {"a"})) :
           ~LinkMatches(a, Variations(artifactId[1]))

\* C7: when no anchor of the release-notes index matches the artifactId the
\* call returns, without raising, an error message with the artifactId and
\* the list of the variations tried, and no connector page was fetched.
C7_NoMatchIsStructuredNotFound ==
    NoAnchorMatches
        => /\ ~raised
           /\ DOMAIN result = {"error", "artifactId", "attempted_variations"}
           /\ result.error # ""
           /\ result.artifactId = artifactId[1]
           /\ result.attempted_variations = Variations(artifactId[1])
           /\ Len(result.attempted_variations) = 8
           /\ Len(requests) = 3

\* an index with anchors, none of them for "ftp"
C7_Witness ==
    /\ NoAnchorMatches
    /\ artifactId = <<"ftp">>
    /\ find_all(requests[3].soup, {"a"}) # <<>>

\* text starts with an integer, a dot and another integer
VersionLike(text) ==
    /\ DigitRun(text, 1) > 0
    /\ CharAt(text, DigitRun(text, 1) + 1) = "."
    /\ DigitRun(text, DigitRun(text, 1) + 2) > 0

\* the stripped text of the n-th td cell of a row
CellText(row, n) == Strip(TdCells(row)[n].text)

\* the rows of a page that are not the first of their table and have at
\* least `threshold` td cells
ScannableRows(soup, threshold) ==
    {row \in UNION {{t.rows[i] : i \in 2..Len(t.rows)} :
                       t \in Range(find_all(soup, {"table"}))} :
        Len(TdCells(row)) >= threshold}

\* every version is version-like and is the first cell of a scannable row
VersionsComeFromRows(versions, rows) ==
    \A v \in versions : VersionLike(v) /\ \E row \in rows : CellText(row, 1) = v

\* every pair is version-like and is the first two cells of a scannable row
PairsComeFromRows(pairs, rows) ==
    \A p \in pairs :
        /\ VersionLike(p.mule_version)
        /\ VersionLike(p.dataweave_version)
        /\ \E row \in rows : /\ CellText(row, 1) = p.mule_version
                             /\ CellText(row, 2) = p.dataweave_version

\* the versions of the records of the runtime scraper's two lists
ListedVersions(full_info) ==
    {full_info.edge_versions[i].version : i \in 1..Len(full_info.edge_versions)}
    \cup {full_info.lts_versions[i].version : i \in 1..Len(full_info.lts_versions)}

\* a call got both of its primary pages and returned data
ReturnedData ==
    /\ pc = "done"
    /\ ~raised
    /\ "error" \notin DOMAIN result
    /\ Len(requests) >= 2

\* C8: whatever a row-scan puts in the output (a record of the cadence
\* table, a key of the Java-support map, a pair of the DataWeave table) has
\* a version-like version and comes from a row that is not row 0 of its table
\* and has at least the threshold of cells: 3 for the cadence table, 2 for
\* the Java-support and DataWeave tables.
C8_RowScanYieldsVersionRowsOnly ==
    /\ (ReturnedData /\ tool \in ScrapeTools)
           => /\ VersionsComeFromRows(ListedVersions(frame.full_info),
                                      ScannableRows(requests[1].soup, 3))
              /\ VersionsComeFromRows(DictKeys(frame.full_info.java_compatibility),
                                      ScannableRows(requests[2].soup, 2))
              /\ VersionsComeFromRows(DictKeys(frame.full_info.java_compatibility_strings),
                                      ScannableRows(requests[2].soup, 2))
    /\ (ReturnedData /\ tool \notin ScrapeTools)
           => VersionsComeFromRows(DictKeys(result.java_compatibility),
                                   ScannableRows(requests[2].soup, 2))
    /\ (ReturnedData /\ tool = "get_dataweave_versions")
           => PairsComeFromRows(Range(result.all_compatibility_data),
                                ScannableRows(requests[1].soup, 2))

\* a cadence page whose row 0 holds a version in td cells, and a Java-support
\* page with a row of one cell and a row whose version is not at the start
C8_Witness ==
    /\ ReturnedData
    /\ tool = "get_mulesoft_runtime_versions"
    /\ result.edge_versions # <<>>
    /\ \E t \in Range(find_all(requests[1].soup, {"table"})) :
           Len(TdCells(t.rows[1])) >= 3 /\ VersionLike(CellText(t.rows[1], 1))
    /\ \E t \in Range(find_all(requests[2].soup, {"table"})) :
           \E i \in 2..Len(t.rows) :
               \/ Len(TdCells(t.rows[i])) < 2
               \/ ~VersionLike(CellText(t.rows[i], 1))

\* the accepted rows of the cadence page, in page order
AcceptedRows(lts_edge_soup) ==
    SelectSeq(DataRows(find_all(lts_edge_soup, {"table"})),
              LAMBDA row : Len(TdCells(row)) >= 3 /\ VersionLike(CellText(row, 1)))

EdgeRows(accepted) ==
    SelectSeq(accepted, LAMBDA row : Contains(CellText(row, 1), "Edge"))

LtsRows(accepted) ==
    SelectSeq(accepted, LAMBDA row : /\ Contains(CellText(row, 1), "LTS")
                                     /\ ~Contains(CellText(row, 1), "Edge"))

\* {version, release_date, jdk_versions} of each row
RecordsOf(rows) ==
    [i \in 1..Len(rows) |->
        [version |-> CellText(rows[i], 1),
         release_date |-> CellText(rows[i], 2),
         jdk_versions |-> parse_jdk_versions(CellText(rows[i], 3))]]

ClassifiedAsListed(full_info, edge_rows, lts_rows) ==
    (edge_rows # <<>> \/ lts_rows # <<>>)
        => /\ full_info.edge_versions = RecordsOf(edge_rows)
           /\ full_info.lts_versions = RecordsOf(lts_rows)

\* C9: when some accepted cadence row is classified, edge_versions is the
\* accepted rows whose version contains "Edge" and lts_versions those whose
\* version contains "LTS" and not "Edge", in page order, each as
\* {version, release_date, jdk_versions} with the parsed third cell.
C9_EdgeAndLtsListsAreTheClassifiedRows ==
    (ReturnedData /\ tool \in ScrapeTools)
        => ClassifiedAsListed(frame.full_info,
                              EdgeRows(AcceptedRows(requests[1].soup)),
                              LtsRows(AcceptedRows(requests[1].soup)))

\* a page with a row that names both cadences next to an LTS row
C9_Witness ==
    /\ ReturnedData
    /\ tool = "get_mulesoft_runtime_versions"
    /\ result.lts_versions # <<>>
    /\ \E i \in 1..Len(result.edge_versions) :
           Contains(result.edge_versions[i].version, "LTS")

\* the versions of the latest Edge and LTS records, where there are any
LatestVersions(full_info) ==
    {full_info.edge_versions[i].version : i \in 1..Len(full_info.edge_versions) \cap {1}}
    \cup {full_info.lts_versions[i].version : i \in 1..Len(full_info.lts_versions) \cap {1}}

IsLatestProjection(r, full_info) ==
    IF "error" \in DOMAIN full_info
    THEN r = full_info
    ELSE /\ DOMAIN r = {"latest_edge", "latest_lts", "java_compatibility"}
         /\ r.latest_edge = IF full_info.edge_versions = <<>> THEN None
                            ELSE full_info.edge_versions[1]
         /\ r.latest_lts = IF full_info.lts_versions = <<>> THEN None
                           ELSE full_info.lts_versions[1]
         /\ DictKeys(r.java_compatibility)
              = {v \in LatestVersions(full_info) :
                    DictHas(full_info.java_compatibility, v)}
         /\ Len(r.java_compatibility) = Cardinality(DictKeys(r.java_compatibility))
         /\ \A v \in DictKeys(r.java_compatibility) :
                DictGet(r.java_compatibility, v)
                    = DictGet(full_info.java_compatibility, v)

\* C10: get_latest_mulesoft_versions returns element 0 of edge_versions and
\* of lts_versions (None for an empty list) and the Java map cut down to the
\* latest versions that are keys of the full map, values unchanged; an error
\* of the runtime scraper is returned as it is.
C10_LatestIsTheProjection ==
    (pc = "done" /\ tool = "get_latest_mulesoft_versions")
        => ~raised /\ IsLatestProjection(result, frame.full_info)

\* two Edge records to choose from, no LTS record, the latest Edge in the Java map
C10_Witness ==
    /\ pc = "done"
    /\ tool = "get_latest_mulesoft_versions"
    /\ "error" \notin DOMAIN result
    /\ Len(frame.full_info.edge_versions) > 1
    /\ frame.full_info.edge_versions[1] # frame.full_info.edge_versions[2]
    /\ result.latest_lts = None
    /\ result.java_compatibility # <<>>

\* get_dataweave_versions returned data
DataweaveReturnedData == ReturnedData /\ tool = "get_dataweave_versions"

\* a version read as the integers between its dots
Components(version) ==
    [i \in 1..Len(SplitDots(version)) |-> ToInt(Strip(SplitDots(version)[i]))]

\* a comes before b when the two are compared component by component: at
\* the first component that differs a's is the smaller, or a ends first
ComponentsLess(a, b) ==
    \/ \E k \in 1..Len(a) :
           /\ k <= Len(b)
           /\ a[k] < b[k]
           /\ \A j \in 1..(k - 1) : a[j] = b[j]
    \/ Len(a) < Len(b) /\ \A j \in 1..Len(a) : a[j] = b[j]

NewestFirst(list) ==
    \A i \in 1..(Len(list) - 1) :
        ~ComponentsLess(Components(list[i].mule_version),
                        Components(list[i + 1].mule_version))

\* C11: in all_compatibility_data and in recent_dataweave_versions every
\* entry's mule_version, read as a sequence of integers, is at least that of
\* the entry after it.
C11_DataweaveListsAreNewestFirst ==
    DataweaveReturnedData
        => /\ NewestFirst(result.all_compatibility_data)
           /\ NewestFirst(result.recent_dataweave_versions)

\* the page listed its pairs in another order than the result does
C11_Witness ==
    /\ DataweaveReturnedData
    /\ Len(result.all_compatibility_data) > 2
    /\ [i \in 1..Len(result.all_compatibility_data) |->
           [mule_version |-> result.all_compatibility_data[i].mule_version,
            dataweave_version |-> result.all_compatibility_data[i].dataweave_version]]
         # DataweaveRowScan(requests[1].soup)

NoPairTwice(list) ==
    \A i, j \in 1..Len(list) :
        (/\ i # j
         /\ list[i].mule_version = list[j].mule_version
         /\ list[i].dataweave_version = list[j].dataweave_version) => FALSE

\* C12: whatever rows and tables the DataWeave page holds, neither
\* all_compatibility_data nor recent_dataweave_versions has two entries with
\* the same (mule_version, dataweave_version) pair.
C12_DataweaveListsHaveNoDuplicates ==
    DataweaveReturnedData
        => /\ NoPairTwice(result.all_compatibility_data)
           /\ NoPairTwice(result.recent_dataweave_versions)

\* get_connector_versions(artifactId) got the connector's page
ConnectorPageCame ==
    /\ pc = "done"
    /\ tool = "get_connector_versions"
    /\ Len(requests) = 4
    /\ requests[4].ok

\* the texts of the h2/h3/h4 headings of a page that hold a version number
VersionHeadings(soup) ==
    SelectSeq([i \in 1..Len(find_all(soup, HeadingTags)) |->
                  Strip(find_all(soup, HeadingTags)[i].text)],
              LAMBDA text : \E k \in 1..Len(text) : VersionLike(From(text, k)))

\* a table whose first row names both "software" and "version", with a row below
HasCompatibilityTable(soup) ==
    \E t \in Range(find_all(soup, {"table"})) :
        /\ Len(t.rows) > 1
        /\ \E c \in Range(t.rows[1]) : Lower(Strip(c.text)) = "software"
        /\ \E c \in Range(t.rows[1]) : Lower(Strip(c.text)) = "version"

\* the first five (at most) elements of a list
FirstFive(list) == [i \in 1..(IF Len(list) < 5 THEN Len(list) ELSE 5) |-> list[i]]

\* entries are the records of the given version-like substrings, in order,
\* with unknown runtime and JDK compatibility
AreSimpleEntriesOf(entries, matches) ==
    /\ Len(entries) = Len(matches)
    /\ \A i \in 1..Len(entries) :
           /\ entries[i].connector_version = extract_version_number(matches[i])
           /\ Contains(matches[i], entries[i].connector_version)
           /\ entries[i].mule_version = "Unknown"
           /\ entries[i].jdk_versions = <<>>

\* C13: a connector page with no compatibility table and no version-bearing
\* h2/h3/h4 heading but version-like substrings in its text gives at most 5
\* entries, those of the first matches in text order, each with mule_version
\* "Unknown" and no jdk_versions.
C13_FreeTextGivesUpToFiveUnknownEntries ==
    (/\ ConnectorPageCame
     /\ ~HasCompatibilityTable(requests[4].soup)
     /\ VersionHeadings(requests[4].soup) = <<>>
     /\ FindVersions(AllText(requests[4].soup), 1) # <<>>)
        => /\ ~raised
           /\ "connector_specific" \in DOMAIN result
           /\ Len(result.connector_specific) <= 5
           /\ AreSimpleEntriesOf(result.connector_specific,
                                 FirstFive(FindVersions(AllText(requests[4].soup), 1)))

\* a page whose text holds more than five version-like substrings
C13_Witness ==
    /\ ConnectorPageCame
    /\ ~HasCompatibilityTable(requests[4].soup)
    /\ VersionHeadings(requests[4].soup) = <<>>
    /\ Len(FindVersions(AllText(requests[4].soup), 1)) > 5
    /\ Len(result.connector_specific) = 5

\* the three steps of the cascade, given the version headings and the
\* version-like substrings of the page
CascadeFollowed(r, headings, matches, connector_url) ==
    /\ "error" \notin DOMAIN r
    /\ headings # <<>>
           => /\ "connector_specific" \in DOMAIN r
              /\ Len(r.connector_specific) = Len(headings)
              /\ \A i \in 1..Len(headings) :
                     r.connector_specific[i].connector_version
                         = extract_version_number(headings[i])
    /\ (headings = <<>> /\ matches # <<>>)
           => /\ "connector_specific" \in DOMAIN r
              /\ AreSimpleEntriesOf(r.connector_specific, FirstFive(matches))
    /\ (headings = <<>> /\ matches = <<>>)
           => /\ {"message", "connector_url", "source_urls"} \subseteq DOMAIN r
              /\ "connector_specific" \notin DOMAIN r
              /\ r.message # ""
              /\ r.connector_url = connector_url
              /\ r.source_urls = <<connector_url, MULESOFT_URLS.java_support>>

\* C14: the cascade is ordered: the records of the headings whenever a
\* heading holds a version, the free-text scan only when none does, and a
\* "message" result with connector_url and source_urls and without "error"
\* when the free-text scan finds nothing either.
C14_ConnectorCascadeIsOrdered ==
    ConnectorPageCame
        => /\ ~raised
           /\ CascadeFollowed(result, VersionHeadings(requests[4].soup),
                              FindVersions(AllText(requests[4].soup), 1),
                              requests[4].url)

\* headings with versions on a page whose free text starts with other versions
C14_Witness ==
    /\ ConnectorPageCame
    /\ Len(VersionHeadings(requests[4].soup)) > 1
    /\ FindVersions(Slice(AllText(requests[4].soup), 1, 40), 1) # <<>>
    /\ extract_version_number(FindVersions(Slice(AllText(requests[4].soup), 1, 40), 1)[1])
         # result.connector_specific[1].connector_version

\* C15: however the steps of a call interleave with the fetches of other
\* invocations, overrides of the headers included, the module-level tables
\* MULESOFT_URLS and DEFAULT_HEADERS are what they were at the start, and
\* every GET of the call carries the headers it carries when the call runs
\* alone: the default ones.
C15_ModuleStateIsNeverWritten ==
    /\ module_globals = [MULESOFT_URLS |-> MULESOFT_URLS,
                         DEFAULT_HEADERS |-> DEFAULT_HEADERS]
    /\ \A i \in 1..Len(requests) : requests[i].headers = DEFAULT_HEADERS

\* another invocation sent overridden headers after get_dataweave_versions
\* began and before its last fetch, and the call returned data
C15_Witness ==
    /\ pc = "done"
    /\ tool = "get_dataweave_versions"
    /\ Len(requests) > 2
    /\ concurrent_headers # <<>>
    /\ concurrent_headers # DEFAULT_HEADERS
    /\ "error" \notin DOMAIN result
Is2xx(status) == status >= 200 /\ status < 300

FetchRan == call.fn = "get_html_content" /\ returned # NoResult

\* C16: the fetcher fails with a fetch error for every response whose status
\* is not 2xx and for every transport failure, and returns a parsed document
\* only for 2xx responses
C16_FetcherParsesOnly2xx ==
    FetchRan =>
        IF call.outcome.kind = "response" /\ Is2xx(call.outcome.status)
        THEN ~returned.raised /\ returned.soup = call.outcome.content
        ELSE returned.raised /\ returned.type = "RequestException"

\* the part of C16 the fetcher keeps: transport failures and 4xx/5xx statuses
\* fail with a fetch error, 2xx responses are parsed
C16_FetcherFailsOn4xx5xxAndTransport ==
    FetchRan =>
        /\ call.outcome.kind = "failure" => returned.raised
        /\ (call.outcome.kind = "response" /\ call.outcome.status >= 400)
              => returned.raised /\ returned.type = "RequestException"
        /\ (call.outcome.kind = "response" /\ Is2xx(call.outcome.status))
              => ~returned.raised /\ returned.soup = call.outcome.content

\* a maximal run of digits of text starts at i
IsRunStart(text, i) ==
    IsDigit(CharAt(text, i)) /\ (i = 1 \/ ~IsDigit(CharAt(text, i - 1)))

\* where the maximal run that starts at i ends
RunEnd(text, i) ==
    CHOOSE j \in i..Len(text) :
        /\ \A k \in i..j : IsDigit(CharAt(text, k))
        /\ (j = Len(text) \/ ~IsDigit(CharAt(text, j + 1)))

\* the decimal value of a run of digits, read from the left
RECURSIVE DecimalValue(_, _)
DecimalValue(ds, acc) ==
    IF Len(ds) = 0 THEN acc
    ELSE DecimalValue(From(ds, 2),
                      10 * acc + (CHOOSE d \in 0..9 : CharAt(Digits, d + 1) = CharAt(ds, 1)))

\* the values of the maximal digit runs of text from position i on, in order
RECURSIVE MaximalDigitRuns(_, _)
MaximalDigitRuns(text, i) ==
    IF i > Len(text) THEN <<>>
    ELSE (IF IsRunStart(text, i)
          THEN <<DecimalValue(Slice(text, i, RunEnd(text, i)), 0)>>
          ELSE <<>>) \o MaximalDigitRuns(text, i + 1)

JdkParsed(arg) ==
    call = [fn |-> "parse_jdk_versions", jdk_string |-> arg] /\ returned # NoResult

\* C17: parse_jdk_versions returns the maximal digit runs of its text as
\* integers in order of appearance, neither sorted nor deduplicated, and the
\* empty list for empty or missing input; "8, 11, and 17" gives [8, 11, 17]
\* and "8 and 11" gives [8, 11]
C17_ParseJdkVersionsGivesTheDigitRuns ==
    /\ (call.fn = "parse_jdk_versions" /\ returned # NoResult) =>
          /\ ~returned.raised
          /\ returned.value = IF call.jdk_string = <<>> THEN <<>>
                              ELSE MaximalDigitRuns(call.jdk_string[1], 1)
          /\ \A i \in 1..Len(returned.value) : returned.value[i] \in Nat
    /\ JdkParsed(<<>>) => returned.value = <<>>
    /\ JdkParsed(<<"">>) => returned.value = <<>>
    /\ JdkParsed(<<"8, 11, and 17">>) => returned.value = <<8, 11, 17>>
    /\ JdkParsed(<<"8 and 11">>) => returned.value = <<8, 11>>

\* a text whose runs are out of order and repeated was parsed
C17_Witness ==
    /\ JdkParsed(<<"17, 8, 8">>)
    /\ returned.value = <<17, 8, 8>>

SearchRan == call.fn = "search_youtube" /\ returned # NoResult

\* the title holds the query, or each of its words, whatever the case
HoldsQuery(title, query) ==
    \/ Occurrences(Lower(title), Lower(query)) # {}
    \/ Len(query) = 0
    \/ \A i \in 1..Len(query) :
           \A j \in i..Len(query) :
              (/\ \A k \in i..j : ~IsSpace(CharAt(query, k))
               /\ (i = 1 \/ IsSpace(CharAt(query, i - 1)))
               /\ (j = Len(query) \/ IsSpace(CharAt(query, j + 1))))
              => Occurrences(Lower(title), Lower(Slice(query, i, j))) # {}

EveryTitleHoldsQuery ==
    \A i \in 1..Len(returned.value) : HoldsQuery(returned.value[i].title, call.query)

\* C18: search_youtube returns at most max_results entries for every integer
\* max_results (0 included) and every feed, and every returned title holds
\* the query, or all of the query's words, case-insensitively
C18_SearchReturnsAtMostMaxResults ==
    SearchRan =>
        /\ Len(returned.value) <= call.max_results
        /\ EveryTitleHoldsQuery

\* what search_youtube keeps of C18: the bound holds from max_results = 1 on,
\* one entry at most comes back below that, and every title holds the query
C18_SearchReturnsAtMostMaxResultsFromOne ==
    SearchRan =>
        /\ call.max_results >= 1 => Len(returned.value) <= call.max_results
        /\ call.max_results < 1 => Len(returned.value) <= 1
        /\ EveryTitleHoldsQuery

HttpRan == call.fn \in HttpRoutes /\ returned # NoResult

\* what the stdio calculator's tool of the same name gives for the same inputs
StdioAnswer ==
    IF call.fn \in {"GET /divide", "POST /divide"}
    THEN divide(call.dividend, call.divisor)
    ELSE reminder(call.dividend, call.divisor)

\* the stdio tool gives the quotient, or the remainder, of the two numbers
StdioAnswerIsRight ==
    LET q == StdioAnswer.value
    IN IF call.fn \in {"GET /divide", "POST /divide"}
       THEN q.den > 0 /\ q.num * call.divisor = call.dividend * q.den
       ELSE /\ q.den = 1
            /\ \E n \in -10..10 : call.dividend = n * call.divisor + q.num
            /\ Abs(q.num) < Abs(call.divisor)
            /\ (q.num = 0 \/ (q.num > 0) = (call.divisor > 0))

\* C19: for every dividend and non-zero divisor the HTTP calculator's divide
\* and reminder routes (GET and POST) return the quotient and the remainder,
\* the values of the stdio calculator's tools; for divisor 0 both give an
\* error instead of a value
C19_HttpDivideAndReminderEqualStdio ==
    HttpRan =>
        IF call.divisor = 0
        THEN /\ DOMAIN returned.value = {"error"}
             /\ StdioAnswer.raised
        ELSE /\ ~StdioAnswer.raised
             /\ StdioAnswerIsRight
             /\ returned.value = [result |-> StdioAnswer.value]

\* what holds of C19: the stdio tools give the quotient and the remainder,
\* and both calculators give an error for divisor 0
C19_StdioIsRightAndZeroDivisorIsAnError ==
    HttpRan =>
        IF call.divisor = 0
        THEN DOMAIN returned.value = {"error"} /\ StdioAnswer.raised
        ELSE ~StdioAnswer.raised /\ StdioAnswerIsRight

ScraperRuns == tool \in ScrapeTools

\* the GETs of the run are exactly these URLs with these outcomes, in order
Fetched(urls, oks) ==
    /\ Len(requests) = Len(urls)
    /\ \A i \in 1..Len(urls) : requests[i].url = urls[i] /\ requests[i].ok = oks[i]

CadenceUrl == MULESOFT_URLS.lts_edge_release_cadence
JavaUrl == MULESOFT_URLS.java_support

\* the scraper returned: its value is in full_info
ScraperReturned == ScraperRuns /\ pc = "done" /\ "full_info" \in DOMAIN frame
ScraperFailed == ScraperReturned /\ DOMAIN frame.full_info = {"error"}
ScraperSucceeded ==
    /\ ScraperReturned
    /\ "error" \notin DOMAIN frame.full_info
    /\ "edge_versions" \in DOMAIN frame.full_info

\* where the run stands agrees with the fetches made so far
ScraperPhases ==
    ScraperRuns =>
        /\ pc \in {"fetch_lts_edge", "fetch_java", "extracting", "done"}
        /\ pc = "fetch_lts_edge" => requests = <<>>
        /\ pc = "fetch_java" => Fetched(<<CadenceUrl>>, <<TRUE>>)
        /\ pc = "extracting" => Fetched(<<CadenceUrl, JavaUrl>>, <<TRUE, TRUE>>)
        /\ pc = "done" =>
              /\ ScraperFailed # ScraperSucceeded
              /\ ScraperFailed =>
                    \/ Fetched(<<CadenceUrl>>, <<FALSE>>)
                    \/ Fetched(<<CadenceUrl, JavaUrl>>, <<TRUE, FALSE>>)
              /\ ScraperSucceeded => Fetched(<<CadenceUrl, JavaUrl>>, <<TRUE, TRUE>>)

\* a step of the run goes to the next phase, or to its end on a failed fetch
ScraperStep ==
    (ScraperRuns /\ pc' # pc) =>
        \/ pc = "fetch_lts_edge" /\ pc' = "fetch_java"
        \/ pc = "fetch_lts_edge" /\ ScraperFailed'
        \/ pc = "fetch_java" /\ pc' = "extracting"
        \/ pc = "fetch_java" /\ ScraperFailed'
        \/ pc = "extracting" /\ ScraperSucceeded'
        \/ pc = "done" /\ pc' = "idle"

\* C20: a run of the runtime-version scraper goes Init, FetchingEdgeLts,
\* FetchingJava, Extracting, then Done or Failed: the cadence page is fetched
\* before the Java-support page, the Java-support page is requested only if
\* the cadence fetch succeeded, extraction starts only after both fetches
\* succeeded, no fetch follows a failure, and every run ends in exactly one
\* of Done (success payload) and Failed (error payload)
C20_ScraperFollowsItsPhases ==
    /\ []ScraperPhases
    /\ [][ScraperStep]_vars
    /\ (ScraperRuns /\ pc = "fetch_lts_edge") ~> (ScraperFailed \/ ScraperSucceeded)

\* a run went through both fetches and the extraction and ended in Done
C20_Witness ==
    /\ ScraperRuns
    /\ ScraperSucceeded
    /\ Fetched(<<CadenceUrl, JavaUrl>>, <<TRUE, TRUE>>)
    /\ frame.full_info.edge_versions # <<>>

\* the record is the one the row-scan made of the row, with these fields
IsRecordOfRow(record, row, fields) ==
    /\ DOMAIN record = fields
    /\ record.version = CellText(row, 1)
    /\ record.release_date = CellText(row, 2)
    /\ record.jdk_versions = parse_jdk_versions(CellText(row, 3))

VersionDataFields ==
    {"version", "release_date", "jdk_versions", "jdk_versions_string", "type"}

\* the two lists, given the accepted rows and whether any of them is classified
FallbackExactlyWhenUnclassified(full_info, accepted, classified) ==
    LET n == Len(accepted)
    IN /\ (n > 0 /\ ~classified)
            => /\ Len(full_info.edge_versions) = (IF n < 3 THEN n ELSE 3)
               /\ \A i \in 1..Len(full_info.edge_versions) :
                      IsRecordOfRow(full_info.edge_versions[i], accepted[i],
                                    VersionDataFields)
               /\ Len(full_info.lts_versions) = 1
               /\ IsRecordOfRow(full_info.lts_versions[1], accepted[n],
                                VersionDataFields)
       /\ classified
            => /\ full_info.edge_versions = RecordsOf(EdgeRows(accepted))
               /\ full_info.lts_versions = RecordsOf(LtsRows(accepted))
       /\ n = 0 => full_info.edge_versions = <<>> /\ full_info.lts_versions = <<>>

AnyClassified(accepted) == EdgeRows(accepted) # <<>> \/ LtsRows(accepted) # <<>>

\* C21: the Edge/LTS fallback is taken exactly when some cadence row was
\* accepted and none was classified as Edge or LTS; it makes the first three
\* accepted rows (all of them if fewer) the Edge list in page order and the
\* last accepted row the only element of the LTS list; it is never applied
\* when a row was classified
C21_FallbackExactlyWhenNothingClassified ==
    (ReturnedData /\ tool \in ScrapeTools)
        => FallbackExactlyWhenUnclassified(
               frame.full_info, AcceptedRows(requests[1].soup),
               AnyClassified(AcceptedRows(requests[1].soup)))

\* more than three rows accepted and none classified: three of them are the
\* Edge list and the last is the LTS list
C21_Witness ==
    /\ ReturnedData
    /\ tool = "get_mulesoft_runtime_versions"
    /\ Len(AcceptedRows(requests[1].soup)) > 3
    /\ ~AnyClassified(AcceptedRows(requests[1].soup))
    /\ Len(result.edge_versions) = 3
    /\ Len(result.lts_versions) = 1

\* get_dataweave_versions got both of its primary pages and is over
DataweavePagesCame ==
    /\ pc = "done"
    /\ tool = "get_dataweave_versions"
    /\ Len(requests) >= 2
    /\ requests[1].ok
    /\ requests[2].ok

\* C22: sorting the DataWeave pairs is total over every accepted pair: a
\* mule_version that is version-like but has a non-numeric component (such
\* as "4.4 LTS" or "4.4.0-rc1") is given the sort key [0], and
\* get_dataweave_versions still returns a success payload and not an error
C22_DataweaveSortIsTotal ==
    DataweavePagesCame
        => /\ ~raised
           /\ "error" \notin DOMAIN result
           /\ "all_compatibility_data" \in DOMAIN result

\* what holds of C22: the call is a success whenever every component of
\* every accepted mule_version is an integer, and otherwise it returns a
\* parse error without raising
C22_DataweaveSortFailsOnNonNumericComponent ==
    DataweavePagesCame
        => /\ ~raised
           /\ ("error" \in DOMAIN result)
                = (\E i \in 1..Len(DataweaveRowScan(requests[1].soup)) :
                      ~SortKeyOk(DataweaveRowScan(requests[1].soup)[i]))

DataweaveTablesRan ==
    /\ call.fn = "_extract_dataweave_versions"
    /\ returned # NoResult
    /\ ~returned.raised

\* the rows of the Java-support page that make an entry of the Java map, in
\* page order
JavaMapRows(java_soup) ==
    SelectSeq(DataRows(find_all(java_soup, {"table"})),
              LAMBDA row : Len(TdCells(row)) >= 2 /\ VersionLike(CellText(row, 1)))

\* the value the Java map holds for a key: the one of the last row with that key
JavaMapValue(rows, key) ==
    LET same == {i \in 1..Len(rows) : CellText(rows[i], 1) = key}
    IN parse_jdk_versions(CellText(rows[CHOOSE i \in same : \A j \in same : j <= i], 2))

\* text begins with prefix
BeginsWith(text, prefix) ==
    /\ Len(prefix) <= Len(text)
    /\ \A i \in 1..Len(prefix) : CharAt(text, i) = CharAt(prefix, i)

\* the exact key when there is one, else the first key that starts with the
\* Mule version, else nothing
IsLookedUp(jdk_versions, mule_version, rows) ==
    LET exact == {i \in 1..Len(rows) : CellText(rows[i], 1) = mule_version}
        prefixed == {i \in 1..Len(rows) : BeginsWith(CellText(rows[i], 1), mule_version)}
        first == CHOOSE i \in prefixed : \A j \in prefixed : i <= j
    IN IF exact # {} THEN jdk_versions = JavaMapValue(rows, mule_version)
       ELSE IF prefixed # {}
            THEN jdk_versions = JavaMapValue(rows, CellText(rows[first], 1))
            ELSE jdk_versions = <<>>

EveryPairIsLookedUp(pairs, rows) ==
    \A i \in 1..Len(pairs) :
        IsLookedUp(pairs[i].jdk_versions, pairs[i].mule_version, rows)

\* C23: for each DataWeave pair, jdk_versions is the Java map's value at the
\* key equal to mule_version when that key exists (the exact match goes
\* first); otherwise the value of the first key, in insertion order, that
\* starts with mule_version; and the empty list when no key matches
C23_JdkLookupIsExactThenFirstPrefix ==
    DataweaveTablesRan
        => /\ EveryPairIsLookedUp(returned.combined_data, JavaMapRows(call.java_soup))
           /\ EveryPairIsLookedUp(returned.recent_versions, JavaMapRows(call.java_soup))

\* the exact key "4.4.0" comes after a key that starts with it, and the
\* pair got the exact key's list
C23_Witness ==
    /\ DataweaveTablesRan
    /\ call.java_soup = <<Table(<<JavaHeader,
                                  <<Td("4.4.0 Edge"), Td("17")>>,
                                  <<Td("4.4.0 LTS"), Td("11")>>,
                                  <<Td("4.4.0"), Td("8 and 11")>>>>)>>
    /\ \E i \in 1..Len(returned.combined_data) :
           /\ returned.combined_data[i].mule_version = "4.4.0"
           /\ returned.combined_data[i].jdk_versions = <<8, 11>>

\* the dataweave_version of the first three (at most) entries of a list
TopThreeVersions(recent) ==
    {recent[i].dataweave_version : i \in 1..(IF Len(recent) < 3 THEN Len(recent) ELSE 3)}

\* every entry is capped and keyed by one of the top three versions
ReleaseNotesAreCapped(release_notes, recent) ==
    \A i \in 1..Len(release_notes) :
        /\ Len(release_notes[i].v.breaking_changes) <= 3
        /\ Len(release_notes[i].v.new_features) <= 5
        /\ Len(release_notes[i].v.important_notes) <= 3
        /\ release_notes[i].k \in TopThreeVersions(recent)

\* the GETs after the two primary pages ask for the release notes of the
\* first, second and third entry, and there is no fourth
ReleaseNotesRequestsAreTopThree(recent) ==
    /\ Len(requests) <= 5
    /\ \A i \in 3..Len(requests) :
           /\ i - 2 <= Len(recent)
           /\ requests[i].url
                = MULESOFT_URLS.dataweave_release_notes_template[1]
                  \o recent[i - 2].dataweave_version
                  \o MULESOFT_URLS.dataweave_release_notes_template[2]

\* C24: every entry of release_notes has at most 3 breaking_changes, 5
\* new_features and 3 important_notes whatever the page holds, its key is the
\* dataweave_version of one of the first three entries of the sorted recent
\* list, and no release-notes page is requested for an entry beyond the third
C24_ReleaseNotesAreCappedAndTopThree ==
    /\ DataweaveReturnedData
          => /\ ReleaseNotesAreCapped(result.release_notes,
                                      result.recent_dataweave_versions)
             /\ ReleaseNotesRequestsAreTopThree(result.recent_dataweave_versions)
    /\ (tool = "get_dataweave_versions" /\ pc = "fetch_release_notes")
          => ReleaseNotesRequestsAreTopThree(frame.recent_versions)
    /\ (tool = "get_dataweave_versions" /\ pc \notin {"fetch_release_notes", "done"})
          => Len(requests) <= 2

\* more than three recent entries, three release-notes pages fetched, and an
\* entry whose page held more breaking changes and new features than are kept
C24_Witness ==
    /\ DataweaveReturnedData
    /\ Len(result.recent_dataweave_versions) > 3
    /\ Len(requests) = 5
    /\ \E i \in 1..Len(result.release_notes) :
           /\ Len(result.release_notes[i].v.breaking_changes) = 3
           /\ Len(result.release_notes[i].v.new_features) = 5
           /\ Len(ReleaseNotesHeadings(requests[3].soup).breaking_changes) > 3

\* the anchor scan of get_connector_versions selected a link
LinkSelected ==
    /\ tool = "get_connector_versions"
    /\ pc \in {"fetch_connector_page", "done"}
    /\ "connector_link" \in DOMAIN frame

\* the anchor's text is, whatever the case, one of the variations, or is one
\* once its " release notes" suffix is stripped
EqualsVariation(anchor, variations) ==
    \E i \in 1..Len(variations) :
        \/ Lower(variations[i]) = Lower(Strip(anchor.text))
        \/ Lower(variations[i])
             = Strip(Replace(Lower(Strip(anchor.text)), " release notes", ""))

\* link is the href of the first anchor that satisfies Matches
IsFirstOf(link, anchors, Matches(_)) ==
    \E i \in 1..Len(anchors) :
        /\ Matches(anchors[i])
        /\ link = anchors[i].href
        /\ \A j \in 1..(i - 1) : ~Matches(anchors[j])

\* C25: on the release-notes index an anchor is selected as the connector
\* link only if its text, whatever the case, equals one of the name
\* variations, or equals one after its " release notes" suffix is stripped;
\* the first such anchor in document order is the one used
C25_SelectedAnchorEqualsAVariation ==
    LinkSelected
        => IsFirstOf(frame.connector_link, find_all(requests[3].soup, {"a"}),
                     LAMBDA a : EqualsVariation(a, Variations(artifactId[1])))

\* what holds of C25: the link is that of the first anchor, among those with
\* a non-empty href, whose text holds a variation as a substring or equals
\* one after the suffix is stripped
C25_SelectedAnchorHoldsAVariation ==
    LinkSelected
        => IsFirstOf(frame.connector_link, find_all(requests[3].soup, {"a"}),
                     LAMBDA a : /\ a.href # ""
                                /\ \/ EqualsVariation(a, Variations(artifactId[1]))
                                   \/ \E i \in 1..8 :
                                         Occurrences(Lower(Strip(a.text)),
                                                     Lower(Variations(artifactId[1])[i])) # {})

LinkResolved == call.fn = "resolve connector_link" /\ returned # NoResult

\* text without its first n characters
Without(text, n) == Slice(text, n + 1, Len(text))

ConnectorsIndex == "https://docs.mulesoft.com/connectors/"

\* the URL the prefix rules give for a link
FollowsPrefixRules(url, link) ==
    /\ (BeginsWith(link, "../../") /\ Occurrences(link, "/release-notes/connector/") # {})
          => url = "https://docs.mulesoft.com" \o Without(link, 5)
    /\ (BeginsWith(link, "../../") /\ Occurrences(link, "/release-notes/connector/") = {})
          => url = ConnectorsIndex \o Without(link, 6)
    /\ (BeginsWith(link, "../") /\ ~BeginsWith(link, "../../"))
          => url = ConnectorsIndex \o "introduction/" \o Without(link, 3)
    /\ BeginsWith(link, "/") => url = "https://docs.mulesoft.com" \o link
    /\ BeginsWith(link, "http") => url = link

\* C26: for every matched href the resolved connector URL is an absolute URL
\* given by the prefix rules ("../../" with "/release-notes/connector/" under
\* the site root, any other "../../" under the connectors index, a single
\* "../" under its "introduction/", "/" under the site root, a full URL as it
\* is), and it never contains a "../" segment
C26_ResolvedUrlIsAbsoluteWithoutDotSegments ==
    LinkResolved
        => /\ FollowsPrefixRules(returned.value, call.connector_link)
           /\ BeginsWith(returned.value, "https://")
           /\ Occurrences(returned.value, "../") = {}

\* what holds of C26: the URL is the one the prefix rules give and is
\* absolute; it is free of "../" when the link holds none after the prefix
\* the rule removes
C26_ResolvedUrlFollowsPrefixRules ==
    LinkResolved
        => /\ FollowsPrefixRules(returned.value, call.connector_link)
           /\ BeginsWith(returned.value, "https://")
           /\ (Occurrences(returned.value, "../") # {})
                = \/ Occurrences(Without(call.connector_link, 6), "../") # {}
                  \/ (BeginsWith(call.connector_link, "../")
                      /\ ~BeginsWith(call.connector_link, "../../")
                      /\ Occurrences(Without(call.connector_link, 3), "../") # {})

\* the tables of a page, in document order, that have rows under a first row
\* naming both "software" and "version"
SoftwareVersionTables(soup) ==
    SelectSeq(find_all(soup, {"table"}),
              LAMBDA t : /\ Len(t.rows) > 1
                         /\ \E c \in Range(t.rows[1]) : Lower(Strip(c.text)) = "software"
                         /\ \E c \in Range(t.rows[1]) : Lower(Strip(c.text)) = "version")

\* the rows under the header with two cells or more, the first of which
\* satisfies Names
SoftwareRows(table, Names(_)) ==
    SelectSeq(Tail(table.rows),
              LAMBDA row : Len(TdCells(row)) >= 2 /\ Names(CellText(row, 1)))

\* the Mule version a compatibility table states, "Unknown" without a Mule row
MuleVersionOf(table) ==
    LET rows == SoftwareRows(table, LAMBDA software : software = "Mule")
    IN IF rows = <<>> THEN "Unknown" ELSE CellText(rows[Len(rows)], 2)

\* the JDK versions a compatibility table states, none without a JDK row
JdkVersionsOf(table) ==
    LET rows == SoftwareRows(table, LAMBDA software :
                                 software # "Mule" /\ Occurrences(software, "JDK") # {})
    IN IF rows = <<>> THEN <<>> ELSE parse_jdk_versions(CellText(rows[Len(rows)], 2))

\* every entry carries the values of the first compatibility table of the
\* page, or "Unknown" and no JDK versions when the page has none
CarryFirstTable(entries, soup) ==
    \A i \in 1..Len(entries) :
        IF SoftwareVersionTables(soup) = <<>>
        THEN entries[i].mule_version = "Unknown" /\ entries[i].jdk_versions = <<>>
        ELSE /\ entries[i].mule_version = MuleVersionOf(SoftwareVersionTables(soup)[1])
             /\ entries[i].jdk_versions = JdkVersionsOf(SoftwareVersionTables(soup)[1])

\* the connector's page came and has version-bearing headings
HeadingEntriesReturned ==
    /\ ConnectorPageCame
    /\ VersionHeadings(requests[4].soup) # <<>>
    /\ "connector_specific" \in DOMAIN result

\* C27: all heading-derived entries of connector_specific in one result carry
\* the same mule_version and jdk_versions: those of the first table in
\* document order whose header row names both "software" and "version" (the
\* Mule row's version, the JDK row's versions), "Unknown" and an empty list
\* when the page has no such table; later compatibility tables affect no entry.
C27_HeadingEntriesCarryFirstTable ==
    (ConnectorPageCame /\ VersionHeadings(requests[4].soup) # <<>>)
        => /\ "connector_specific" \in DOMAIN result
           /\ Len(result.connector_specific) = Len(VersionHeadings(requests[4].soup))
           /\ CarryFirstTable(result.connector_specific, requests[4].soup)

\* two headings on a page with two compatibility tables that differ: both
\* entries carry the first table's values
C27_Witness ==
    /\ HeadingEntriesReturned
    /\ Len(SoftwareVersionTables(requests[4].soup)) = 2
    /\ MuleVersionOf(SoftwareVersionTables(requests[4].soup)[2]) = "4.1.1 and later"
    /\ Len(result.connector_specific) = 2
    /\ \A i \in 1..2 : result.connector_specific[i].mule_version = "4.3.0 and later"
    /\ \A i \in 1..2 : Len(result.connector_specific[i].jdk_versions) = 3

\* a call ended with an error result
ErrorReturned == pc = "done" /\ ~raised /\ "error" \in DOMAIN result

\* the call ended on the failure of an HTTP fetch: no response, or a 4xx/5xx one
FetchFailureEnded ==
    /\ ErrorReturned
    /\ requests[Len(requests)].exc = "RequestException"

\* the call ended on a failure raised after the page was fetched: the parser
\* rejected its markup, or the extraction from the parsed pages failed
ParseFailureEnded ==
    /\ ErrorReturned
    /\ \/ requests[Len(requests)].exc \notin {"", "RequestException"}
       \/ /\ tool = "get_dataweave_versions"
          /\ Len(requests) = 2
          /\ requests[2].ok
          /\ DataweaveTables(requests[1].soup, requests[2].soup).raised

\* the wording of a failure to fetch or to access a page
SaysFetchFailed(error) ==
    \E wording \in {"Failed to fetch", "Could not fetch", "Could not access"} :
        BeginsWith(error, wording)

\* the wording of a failure to parse
SaysParseFailed(error) == BeginsWith(error, "Failed to parse")

\* C28: every error result distinguishes the two kinds of failure: a failed
\* HTTP fetch is never reported with the wording of a parse failure, and a
\* failure raised while parsing or extracting from a fetched page is never
\* reported as a failure to fetch or access a page, in the runtime, DataWeave
\* and connector scrapers, the connector-page and release-notes-index
\* branches included.
C28_ErrorsDistinguishFetchFromParse ==
    /\ FetchFailureEnded => ~SaysParseFailed(result.error)
    /\ ParseFailureEnded => ~SaysFetchFailed(result.error)

\* what holds of C28: a failed fetch is never worded as a parse failure, and
\* a failure after the fetch is worded as a parse failure except in the two
\* connector branches, whose handlers word every exception as a failure to
\* fetch or access the page
C28_ErrorsDistinguishOutsideConnectorBranches ==
    /\ FetchFailureEnded
          => SaysFetchFailed(result.error) /\ ~SaysParseFailed(result.error)
    /\ (ParseFailureEnded /\ Len(requests) <= 2)
          => SaysParseFailed(result.error) /\ ~SaysFetchFailed(result.error)
    /\ (ParseFailureEnded /\ Len(requests) > 2)
          => /\ tool = "get_connector_versions"
             /\ SaysFetchFailed(result.error)
             /\ ~SaysParseFailed(result.error)

\* no record is in both lists
Disjoint(edge_versions, lts_versions) ==
    \A i \in 1..Len(edge_versions) : \A j \in 1..Len(lts_versions) :
        edge_versions[i] # lts_versions[j]

\* the runtime scraper returned its two lists, made of a cadence page on
\* which no accepted row is written twice: a record stands for one row
RuntimeListsReturned ==
    /\ ReturnedData
    /\ tool \in ScrapeTools
    /\ \A i, j \in 1..Len(AcceptedRows(requests[1].soup)) :
           i # j => AcceptedRows(requests[1].soup)[i] # AcceptedRows(requests[1].soup)[j]

\* C29: in every success result of the runtime-version scraper no cadence
\* row is in both edge_versions and lts_versions: the lists are disjoint on
\* every path, the fallback with one, two or three accepted rows included.
C29_EdgeAndLtsListsAreDisjoint ==
    RuntimeListsReturned
        => Disjoint(frame.full_info.edge_versions, frame.full_info.lts_versions)

\* what holds of C29: the lists are disjoint when a row is classified or
\* more than three rows are accepted; the fallback with one to three accepted
\* rows puts the last of them in both lists
C29_ListsOverlapInShortFallbackOnly ==
    RuntimeListsReturned
        => LET accepted == AcceptedRows(requests[1].soup)
               full_info == frame.full_info
           IN IF ~AnyClassified(accepted) /\ Len(accepted) \in 1..3
              THEN /\ Len(full_info.edge_versions) = Len(accepted)
                   /\ full_info.lts_versions
                        = <<full_info.edge_versions[Len(accepted)]>>
              ELSE Disjoint(full_info.edge_versions, full_info.lts_versions)

\* the keys of the Java map
JavaMapKeys(rows) == {CellText(rows[i], 1) : i \in 1..Len(rows)}

\* the key denotes the Mule version: the version followed by a suffix that
\* does not begin with a digit
DenotesVersion(key, mule_version) ==
    /\ BeginsWith(key, mule_version)
    /\ Len(key) > Len(mule_version)
    /\ ~IsDigit(CharAt(key, Len(mule_version) + 1))

\* a pair without an exact key has no JDK list or that of a key in keys
PrefixFallbackTakesFrom(pairs, rows, Keys(_)) ==
    \A i \in 1..Len(pairs) :
        (/\ pairs[i].mule_version \notin JavaMapKeys(rows)
         /\ pairs[i].jdk_versions # <<>>)
            => \E key \in Keys(pairs[i].mule_version) :
                   pairs[i].jdk_versions = JavaMapValue(rows, key)

\* C30: the jdk_versions a pair gets by the prefix fallback come from a key
\* of the Java map that denotes the pair's own Mule version (the version
\* followed by a non-digit suffix), never from the key of another version
\* whose text begins with the same characters ("4.1" never gets the entry of
\* "4.10 Edge").
C30_PrefixFallbackKeepsTheVersion ==
    DataweaveTablesRan
        => PrefixFallbackTakesFrom(
               returned.combined_data, JavaMapRows(call.java_soup),
               LAMBDA mule_version :
                   {key \in JavaMapKeys(JavaMapRows(call.java_soup)) :
                        DenotesVersion(key, mule_version)})

\* what holds of C30: the list comes from a key that begins with the
\* characters of the pair's Mule version, whatever follows them
C30_PrefixFallbackTakesAKeyWithThePrefix ==
    DataweaveTablesRan
        => PrefixFallbackTakesFrom(
               returned.combined_data, JavaMapRows(call.java_soup),
               LAMBDA mule_version :
                   {key \in JavaMapKeys(JavaMapRows(call.java_soup)) :
                        BeginsWith(key, mule_version)})

====
